---------------------------- MODULE Spec2Model ----------------------------
(***************************************************************************)
(* CloudStash backup agent (custom_components/cloudstash/backup.py): the   *)
(* listing cache, the size-adaptive upload (single put or multipart), the  *)
(* delete and the lookup operations of CloudStashAgent, run against a      *)
(* model of the S3-compatible store behind ObjectStorageGateway.           *)
(*                                                                         *)
(* One step of the model is one awaited call of the agent (a gateway call  *)
(* or one read of the byte stream) together with the code that runs after  *)
(* it up to the next awaited call.                                         *)
(*                                                                         *)
(* Sizes are counted in units of 2^20 bytes: CHUNK_THRESHOLD_BYTES is      *)
(* 20 * 2**20 in the source and 20 units here.  The bytes of a stream are  *)
(* the numbers 1..T, so that a part's body tells which bytes it carries.   *)
(***************************************************************************)
EXTENDS Integers, Sequences, FiniteSets, TLC

\* ------------------------------------------------------------------ bounds

\* Longest byte stream an upload is given in SpecUpload.
MaxTotal == 45

\* Number of agent operations the host starts in Spec.
MaxOps == 3

\* How far the clock runs in Spec, in half freshness windows.
MaxHalfWindows == 4

\* Keys per page of a ListObjectsV2 response.
PageSize == 2

\* Coroutines of the host that call a proxied operation of the gateway in
\* SpecFlights.
MaxFlights == 2

\* Calls of launch, shutdown and the proxied operations the host makes in
\* SpecGateway.
MaxGwCalls == 4

\* Worker threads a gateway starts in SpecGateway.
MaxWorkers == 2

\* Longest raw prefix in SpecRoot.
MaxPrefixLen == 4

\* Most dot-separated segments of a backup's name in SpecNames.
MaxNameSegs == 4

\* Listener subscriptions the host makes in SpecHost, and the times it calls
\* one unsubscribe handle.
MaxSubs == 3

MaxInvokes == 2

\* Submissions of the config flow's forms in SpecHost.
MaxSubmits == 2

\* --------------------------------------------------------------- constants

LISTING_CACHE_SECONDS == 300

CHUNK_THRESHOLD_BYTES == 20

\* Reading of time.monotonic() when the agent is constructed.
StartTime == 1

\* Clock advances are half a freshness window or a whole one.
TickSteps == {LISTING_CACHE_SECONDS \div 2, LISTING_CACHE_SECONDS}

\* ------------------------------------------------------------- exceptions

\* What a gateway call can raise: botocore's BotoCoreError family
\* (connection, validation errors) and ClientError (an error response of the
\* remote store), which is no BotoCoreError.
ErrKinds == {"BotoCoreError", "ClientError"}

IsBotoCoreError_any(k) == TRUE

IsBotoCoreError(k) == k = "BotoCoreError"

\* ---------------------------------------------------------------- records

\* AgentBackup values the host hands to the agent.  A name is the dotted
\* stem of suggested_filename (the segments between the dots); "a" and "b"
\* are two backups with the same name and date, hence the same filename.
Records ==
    { [backup_id |-> "a", name |-> <<"f1">>, size |-> 2],
      [backup_id |-> "b", name |-> <<"f1">>, size |-> 2],
      [backup_id |-> "c", name |-> <<"f2", "01">>, size |-> CHUNK_THRESHOLD_BYTES + 1] }

Ids == {r.backup_id : r \in Records}

\* suggested_filename(backup): the name followed by the extension "tar".
suggested_filename(backup) == backup.name \o <<"tar">>

\* str.rsplit(".", 1)[0] on a dotted name: drop what follows the last dot.
RsplitStem_first(fname) == IF Len(fname) > 1 THEN SubSeq(fname, 1, 1) ELSE fname

RsplitStem(fname) == IF Len(fname) > 1 THEN SubSeq(fname, 1, Len(fname) - 1) ELSE fname

derive_tar_name_meta(backup) == RsplitStem(suggested_filename(backup)) \o <<"metadata", "json">>

derive_tar_name(backup) == RsplitStem(suggested_filename(backup)) \o <<"tar">>

derive_meta_name(backup) == RsplitStem(suggested_filename(backup)) \o <<"metadata", "json">>

\* str.endswith(".metadata.json")
IsMetaKey(key) ==
    /\ Len(key) >= 3
    /\ key[Len(key) - 1] = "metadata"
    /\ key[Len(key)] = "json"

\* The keys that occur, in the lexicographic order ListObjectsV2 returns.
AllKeys ==
    << <<"f1", "metadata", "json">>, <<"f1", "tar">>,
       <<"f2", "01", "metadata", "json">>, <<"f2", "01", "tar">>,
       <<"junk", "metadata", "json">> >>

KeySet == {AllKeys[i] : i \in 1..Len(AllKeys)}

Rank(key) == CHOOSE i \in 1..Len(AllKeys) : AllKeys[i] = key

\* ------------------------------------------------------- metadata documents

NoObj == [t |-> "none"]

RequiredFields == {"backup_id", "name", "size"}

\* json.dumps(backup.as_dict()): a JSON object with the record's fields.
Serialize(backup) ==
    [t |-> "json", doc |-> [f \in RequiredFields |->
        CASE f = "backup_id" -> backup.backup_id
          [] f = "name" -> backup.name
          [] f = "size" -> backup.size]]

\* Bodies that are no serialized record: bytes that are no JSON, and a JSON
\* object without the record's fields.
NotJson == [t |-> "bytes"]

JsonNoFields == [t |-> "json", doc |-> [f \in {"name"} |-> <<"x">>]]

\* AgentBackup.from_dict(json.loads(raw)): the record, or the exception.
Parse(body) ==
    IF body.t # "json" THEN [ok |-> FALSE, exc |-> "JSONDecodeError"]
    ELSE IF ~(RequiredFields \subseteq DOMAIN body.doc) THEN [ok |-> FALSE, exc |-> "KeyError"]
    ELSE [ok |-> TRUE,
          rec |-> [backup_id |-> body.doc["backup_id"], name |-> body.doc["name"],
                   size |-> body.doc["size"]]]

\* The except clause of the per-object fetch in _fetch_listing.
SkipCaught(exc) == IsBotoCoreError(exc) \/ exc = "JSONDecodeError"

\* ETag of an uploaded part: the store's digest of the body.
ETag(body) == <<"md5", body>>


\* ------------------------------------------------------------------- state

VARIABLES
    store,                 \* remote bucket: key -> body, NoObj when absent
    listing,               \* CloudStashAgent._listing: backup_id -> record
    listing_valid_until,   \* CloudStashAgent._listing_valid_until
    now,                   \* time.monotonic()
    pc,                    \* the awaited call the running operation is at
    op,                    \* the running (or last) operation and its arguments
    outcome,               \* what the last operation returned or raised
    stream,                \* the byte stream of the upload
    buf,                   \* buf of _put_single / _put_chunked
    seq,                   \* seq of _put_chunked
    completed_parts,       \* completed_parts of _put_chunked
    session,               \* the remote multipart session of this upload
    exc,                   \* the exception being handled in _put_chunked
    result,                \* result of _fetch_listing
    token,                 \* token of _fetch_listing
    pending,               \* keys of the current page not yet visited
    page,                  \* IsTruncated / NextContinuationToken of the page
    calls,                 \* history: the gateway calls of this operation
    lastMut,               \* history: the last successful upload or delete
    faults,                \* history: some call or stream read has failed
    nOps,                  \* operations started
    gw,                    \* ObjectStorageGateway: _loop, _worker, _ready, _running, _handle
    workers,               \* the worker threads started: where each is in _thread_main
    stopReq,               \* the loops on which loop.stop has been scheduled
    clients,               \* the client handles created: "open" or "closed"
    gpc,                   \* where the host's call of launch, shutdown or a proxy is
    task,                  \* the coroutine handed to a loop by run_coroutine_threadsafe
    gout,                  \* what the host's last gateway call returned or raised
    glog,                  \* history: what the current gateway call has caused so far
    gcall,                 \* history: the current gateway call and the gateway as it began
    nCalls,                \* gateway calls started
    raw_prefix,            \* the prefix option of the config entry
    root,                  \* CloudStashAgent._root
    built,                 \* the last object key _key has built, and its name
    derived,               \* the last pair of names _derive_object_names has returned
    lists,                 \* the list objects async_register_backup_agents_listener made
    hassdata,              \* hass.data[AGENT_LISTENER_KEY]: one of the lists, or absent
    handles,               \* the unsubscribe handles returned, and how often each was called
    notified,              \* history: the listeners the last entry state change called
    wizard,                \* the config flow: its last submission and what came of it
    setup,                 \* async_setup_entry / async_unload_entry of the entry
    parked,                \* the locals of the agent's other operation, suspended in an await
    flights                \* the proxied operations the host's coroutines have in flight

agentVars ==
    << store, listing, listing_valid_until, now, pc, op, outcome, stream, buf, seq,
       completed_parts, session, exc, result, token, pending, page, calls, lastMut,
       faults, nOps >>

gatewayVars == << gw, workers, stopReq, clients, gpc, task, gout, glog, gcall, nCalls >>

rootVars == << raw_prefix, root, built >>

registryVars == << lists, hassdata, handles, notified >>

concurrentVars == << parked, flights >>

entryVars == << rootVars, derived, registryVars, wizard, setup, concurrentVars >>

vars == << agentVars, gatewayVars, entryVars >>

uploadVars == << stream, buf, seq, completed_parts, session, exc >>

fetchVars == << result, token, pending, page >>

cacheVars == << listing, listing_valid_until >>

\* ----------------------------------------------------------------- helpers

Take(s, n) == SubSeq(s, 1, n)

Drop(s, n) == SubSeq(s, n + 1, Len(s))

EmptyMap == [x \in {} |-> x]

Range(f) == {f[x] : x \in DOMAIN f}

MapPut(f, k, v) == [x \in DOMAIN f \cup {k} |-> IF x = k THEN v ELSE f[x]]

NoRecord == [backup_id |-> "", name |-> <<>>, size |-> 0]

\* An operation: its kind and arguments and, as history, the length of its
\* stream and the clock and the cache as they were when it started.
NewOp(kind, id, backup, total) ==
    [kind |-> kind, backup_id |-> id, backup |-> backup, total |-> total,
     at |-> now, exp |-> listing_valid_until, seen |-> listing]

NoOp ==
    [kind |-> "none", backup_id |-> "", backup |-> NoRecord, total |-> 0,
     at |-> 0, exp |-> 0, seen |-> EmptyMap]

NoOutcome == [status |-> "none", exc |-> "", cause |-> "", msg |-> "", value |-> {}]

NoSession == [state |-> "none", uid |-> 0, parts |-> EmptyMap, done |-> 0]

NoMut == [kind |-> "none", backup_id |-> "", n |-> 0]

\* One entry of the call history.
Call(name, key, n, body, res) == [call |-> name, key |-> key, n |-> n, body |-> body, res |-> res]

Results == {"ok"} \cup ErrKinds

\* self._key(name): the root is the same for every key and is left out.
Key(name) == name

\* The keys of the bucket after `after`, in listing order.
KeysAfter(after) == SelectSeq(AllKeys, LAMBDA k : Rank(k) > after /\ store[k] # NoObj)

\* for obj in Contents: skip the keys that do not end in ".metadata.json".
DropNonMeta_all(keys) == keys

RECURSIVE DropNonMeta(_)
DropNonMeta(keys) ==
    IF keys = <<>> THEN <<>>
    ELSE IF IsMetaKey(Head(keys)) THEN keys
    ELSE DropNonMeta(Tail(keys))

\* The name of the wrapped coroutine, for _wrap_storage_errors' message.
FnName(kind) ==
    CASE kind = "list" -> "async_list_backups"
      [] kind = "get" -> "async_get_backup"
      [] kind = "delete" -> "async_delete_backup"
      [] kind = "download" -> "async_download_backup"
      [] OTHER -> "Upload"

\* ------------------------------------------------- returning and raising

\* The operation returns `value` to the host.
ReturnOk(value) ==
    /\ pc' = "done"
    /\ outcome' = [status |-> "ok", exc |-> "", cause |-> "", msg |-> "", value |-> value]

\* Exception k leaves the operation: _wrap_storage_errors, and the except
\* clause of async_upload_backup, turn a BotoCoreError into BackupAgentError
\* and let everything else through.
RaiseMsg(kind, k, m) ==
    /\ pc' = "done"
    /\ outcome' =
          IF IsBotoCoreError(k)
          THEN [status |-> "raised", exc |-> "BackupAgentError", cause |-> k,
                msg |-> FnName(kind) \o " failed", value |-> {}]
          ELSE [status |-> "raised", exc |-> k, cause |-> k, msg |-> m, value |-> {}]

Raise(kind, k) == RaiseMsg(kind, k, "")

\* _drop_cache
DropCache_keepExpiry == listing' = EmptyMap /\ UNCHANGED listing_valid_until

DropCache_forgotten == UNCHANGED << listing, listing_valid_until >>

DropCache ==
    /\ listing_valid_until' = 0
    /\ listing' = EmptyMap

\* monotonic() <= self._listing_valid_until
IsFresh_strict(t, valid) == t < valid

IsFresh(t, valid) == t <= valid

\* The freshness window added to monotonic() after a refresh.
Expiry(t) == t + LISTING_CACHE_SECONDS


\* ------------------------------------------------- initial state, the host

\* What the bucket may hold of other origin when the agent is constructed:
\* nothing, or one metadata object that is no serialized record.
InitialJunk == {NoObj, NotJson, JsonNoFields}

\* The locals of an operation that has not begun.
NoTaskLocals ==
    [pc |-> "idle", op |-> NoOp, outcome |-> NoOutcome, stream |-> <<>>, buf |-> <<>>,
     seq |-> 1, completed_parts |-> <<>>, session |-> NoSession, exc |-> "",
     result |-> EmptyMap, token |-> 0, pending |-> <<>>,
     page |-> [truncated |-> FALSE, next |-> 0], calls |-> <<>>]

\* The agent as CloudStashAgent.__init__ leaves it, and the bucket.
AgentInit ==
    /\ store \in {[k \in KeySet |-> IF k = <<"junk", "metadata", "json">> THEN j ELSE NoObj] :
                    j \in InitialJunk}
    /\ listing = EmptyMap
    /\ listing_valid_until = 0
    /\ now = StartTime
    /\ pc = "idle"
    /\ op = NoOp
    /\ outcome = NoOutcome
    /\ stream = <<>>
    /\ buf = <<>>
    /\ seq = 1
    /\ completed_parts = <<>>
    /\ session = NoSession
    /\ exc = ""
    /\ result = EmptyMap
    /\ token = 0
    /\ pending = <<>>
    /\ page = [truncated |-> FALSE, next |-> 0]
    /\ calls = <<>>
    /\ lastMut = NoMut
    /\ faults = FALSE
    /\ nOps = 0
    /\ parked = NoTaskLocals

\* time.monotonic() advances.  The clock is read at the entry of
\* _fetch_listing and at the end of a refresh, so it is advanced between
\* operations and before a page is requested.
Tick ==
    /\ pc \in {"idle", "list_page"}
    /\ \E d \in TickSteps :
         /\ now + d <= StartTime + MaxHalfWindows * (LISTING_CACHE_SECONDS \div 2)
         /\ now' = now + d
    /\ UNCHANGED << store, listing, listing_valid_until, pc, op, outcome, stream, buf, seq,
                    completed_parts, session, exc, result, token, pending, page, calls,
                    lastMut, faults, nOps >>
    /\ UNCHANGED << gatewayVars, entryVars >>

\* The host has taken the result or the exception of the operation; the
\* locals of the finished call are gone.
HostReturn ==
    /\ pc = "done"
    /\ pc' = "idle"
    /\ op' = NoOp
    /\ outcome' = NoOutcome
    /\ calls' = <<>>
    /\ stream' = <<>>
    /\ buf' = <<>>
    /\ seq' = 1
    /\ completed_parts' = <<>>
    /\ session' = NoSession
    /\ exc' = ""
    /\ result' = EmptyMap
    /\ token' = 0
    /\ pending' = <<>>
    /\ page' = [truncated |-> FALSE, next |-> 0]
    /\ UNCHANGED << store, cacheVars, now, lastMut, faults, nOps >>
    /\ UNCHANGED << gatewayVars, entryVars >>

\* The event loop of the host runs the agent's other operation: the
\* operation that was running stays suspended in its await (or has not been
\* taken back by the host yet), the other one is resumed where it was
\* suspended, or the host is free to start one.
Switch ==
    /\ ~(pc = "idle" /\ parked.pc = "idle")
    /\ parked' = [pc |-> pc, op |-> op, outcome |-> outcome, stream |-> stream,
                  buf |-> buf, seq |-> seq, completed_parts |-> completed_parts,
                  session |-> session, exc |-> exc, result |-> result, token |-> token,
                  pending |-> pending, page |-> page, calls |-> calls]
    /\ pc' = parked.pc
    /\ op' = parked.op
    /\ outcome' = parked.outcome
    /\ stream' = parked.stream
    /\ buf' = parked.buf
    /\ seq' = parked.seq
    /\ completed_parts' = parked.completed_parts
    /\ session' = parked.session
    /\ exc' = parked.exc
    /\ result' = parked.result
    /\ token' = parked.token
    /\ pending' = parked.pending
    /\ page' = parked.page
    /\ calls' = parked.calls
    /\ UNCHANGED << store, cacheVars, now, lastMut, faults, nOps >>
    /\ UNCHANGED << gatewayVars, rootVars, derived, registryVars, wizard, setup, flights >>

\* -------------------------------------------------------------- _resolve

\* raise BackupNotFound(f"Backup {backup_id} not found")
NotFound(o) == RaiseMsg(o.kind, "BackupNotFound", "Backup " \o o.backup_id \o " not found")

\* listing.get(backup_id) is not None
Listed(m, id) == id \in DOMAIN m

\* What the operation does with the listing _fetch_listing returned:
\* async_list_backups returns its values; async_get_backup,
\* async_download_backup and async_delete_backup look the identity up
\* (_resolve) and go on with the record found.
AfterFetch(o, m) ==
    CASE o.kind = "list" ->
           /\ ReturnOk(Range(m))
           /\ op' = o
      [] o.kind = "get" ->
           /\ IF Listed(m, o.backup_id)
              THEN ReturnOk({m[o.backup_id]})
              ELSE NotFound(o)
           /\ op' = o
      [] o.kind \in {"delete", "download"} ->
           IF Listed(m, o.backup_id)
           THEN /\ pc' = IF o.kind = "delete" THEN "del_tar" ELSE "dl_get"
                /\ outcome' = NoOutcome
                /\ op' = [o EXCEPT !.backup = m[o.backup_id]]
           ELSE /\ NotFound(o)
                /\ op' = o

\* -------------------------------------------------------- _fetch_listing

\* Entry of _fetch_listing: a fresh cache is returned as it is, a stale one
\* starts a paginated listing.
FetchEnter(o) ==
    IF IsFresh(now, listing_valid_until)
    THEN /\ AfterFetch(o, listing)
         /\ UNCHANGED << fetchVars, cacheVars >>
    ELSE /\ pc' = "list_page"
         /\ op' = o
         /\ outcome' = NoOutcome
         /\ result' = EmptyMap
         /\ token' = 0
         /\ pending' = <<>>
         /\ page' = [truncated |-> FALSE, next |-> 0]
         /\ UNCHANGED cacheVars

\* The host calls async_list_backups, async_get_backup, async_download_backup
\* or async_delete_backup.
HostFetch(kind, id) ==
    /\ pc = "idle"
    /\ nOps < MaxOps
    /\ nOps' = nOps + 1
    /\ calls' = <<>>
    /\ FetchEnter(NewOp(kind, id, NoRecord, 0))
    /\ UNCHANGED << store, now, uploadVars, lastMut, faults >>
    /\ UNCHANGED << gatewayVars, entryVars >>

HostList == HostFetch("list", "")

HostGet == \E id \in Ids : HostFetch("get", id)

HostDelete == \E id \in Ids : HostFetch("delete", id)

HostDownload == \E id \in Ids : HostFetch("download", id)

\* The rest of _fetch_listing once an object of the page has been handled:
\* the next metadata key of the page, else the next page, else the refresh
\* ends, replaces the cache and the operation goes on with the listing.
FetchContinue(res, rest, pg) ==
    LET more == DropNonMeta(rest) IN
    IF more # <<>>
    THEN /\ pc' = "get_obj"
         /\ pending' = more
         /\ result' = res
         /\ page' = pg
         /\ UNCHANGED << token, cacheVars, op, outcome >>
    ELSE IF pg.truncated
    THEN /\ pc' = "list_page"
         /\ token' = pg.next
         /\ pending' = <<>>
         /\ result' = res
         /\ page' = pg
         /\ UNCHANGED << cacheVars, op, outcome >>
    ELSE /\ listing' = res
         /\ listing_valid_until' = Expiry(now)
         /\ result' = res
         /\ pending' = <<>>
         /\ page' = pg
         /\ UNCHANGED token
         /\ AfterFetch(op, res)

\* An exception leaves _fetch_listing before self._listing and
\* self._listing_valid_until are assigned.
FetchRaise_partial(k) ==
    /\ Raise(op.kind, k)
    /\ listing' = result
    /\ listing_valid_until' = Expiry(now)

FetchRaise(k) ==
    /\ Raise(op.kind, k)
    /\ UNCHANGED cacheVars

\* The response of list_objects_v2 as the history keeps it: IsTruncated,
\* NextContinuationToken and the keys of Contents.
PageOf(pg, keys) == [truncated |-> pg.truncated, next |-> pg.next, keys |-> keys]

\* await self._gw.list_objects_v2(**params)
ListPage ==
    /\ pc = "list_page"
    /\ \E r \in Results :
         /\ IF r = "ok"
            THEN LET keys == KeysAfter(token)
                     here == Take(keys, IF Len(keys) < PageSize THEN Len(keys) ELSE PageSize)
                     pg == [truncated |-> Len(keys) > PageSize,
                            next |-> IF Len(keys) > PageSize THEN Rank(here[Len(here)]) ELSE 0]
                 IN  /\ calls' = Append(calls, Call("list_objects_v2", <<>>, token,
                                                    <<PageOf(pg, here)>>, r))
                     /\ FetchContinue(result, here, pg)
                     /\ UNCHANGED faults
            ELSE /\ calls' = Append(calls, Call("list_objects_v2", <<>>, token, <<>>, r))
                 /\ FetchRaise(r)
                 /\ faults' = TRUE
                 /\ UNCHANGED << fetchVars, op >>
    /\ UNCHANGED << store, now, uploadVars, lastMut, nOps >>
    /\ UNCHANGED << gatewayVars, entryVars >>

\* await self._gw.get_object(...); await resp["Body"].read(); from_dict(...)
\* GetObject of a key the bucket no longer holds is an error response.
GetObj ==
    /\ pc = "get_obj"
    /\ LET key == Head(pending) IN
       \E r \in Results :
         /\ r = "ok" => store[key] # NoObj
         /\ calls' = Append(calls, Call("get_object", key, 0, <<>>, r))
         /\ faults' = (faults \/ r # "ok")
         /\ LET parsed == IF r = "ok" THEN Parse(store[key]) ELSE [ok |-> FALSE, exc |-> r] IN
            IF parsed.ok
            THEN FetchContinue(MapPut(result, parsed.rec.backup_id, parsed.rec),
                               Tail(pending), page)
            ELSE IF SkipCaught(parsed.exc)
            THEN FetchContinue(result, Tail(pending), page)
            ELSE /\ FetchRaise(parsed.exc)
                 /\ UNCHANGED << fetchVars, op >>
    /\ UNCHANGED << store, now, uploadVars, lastMut, nOps >>
    /\ UNCHANGED << gatewayVars, entryVars >>

\* ----------------------------------------------- async_download_backup

\* resp = await self._gw.get_object(Key=self._key(tar_name)); the body's
\* chunks are returned.  GetObject of a key the bucket does not hold is an
\* error response of the store.
DownloadGet ==
    /\ pc = "dl_get"
    /\ LET key == Key(derive_tar_name(op.backup)) IN
       \E r \in Results :
         /\ r = "ok" => store[key] # NoObj
         /\ calls' = Append(calls, Call("get_object", key, 0, <<>>, r))
         /\ faults' = (faults \/ r # "ok")
         /\ IF r = "ok"
            THEN ReturnOk({store[key]})
            ELSE Raise(op.kind, r)
    /\ UNCHANGED << store, cacheVars, now, op, uploadVars, fetchVars, lastMut, nOps >>
    /\ UNCHANGED << gatewayVars, entryVars >>

\* ------------------------------------------------- async_delete_backup

\* A delete_object call has failed: the exception leaves async_delete_backup
\* before _drop_cache is reached.
DeleteRaise_drop(k) ==
    /\ Raise(op.kind, k)
    /\ DropCache

DeleteRaise(k) ==
    /\ Raise(op.kind, k)
    /\ UNCHANGED cacheVars

\* await self._gw.delete_object(Key=self._key(tar_name))
DeleteTar ==
    /\ pc = "del_tar"
    /\ LET key == Key(derive_tar_name(op.backup)) IN
       \E r \in Results :
         /\ calls' = Append(calls, Call("delete_object", key, 0, <<>>, r))
         /\ faults' = (faults \/ r # "ok")
         /\ IF r = "ok"
            THEN /\ store' = [store EXCEPT ![key] = NoObj]
                 /\ pc' = "del_meta"
                 /\ UNCHANGED << outcome, cacheVars >>
            ELSE /\ DeleteRaise(r)
                 /\ UNCHANGED store
    /\ UNCHANGED << now, op, uploadVars, fetchVars, lastMut, nOps >>
    /\ UNCHANGED << gatewayVars, entryVars >>

\* await self._gw.delete_object(Key=self._key(meta_name)); self._drop_cache()
DeleteMeta ==
    /\ pc = "del_meta"
    /\ LET key == Key(derive_meta_name(op.backup)) IN
       \E r \in Results :
         /\ calls' = Append(calls, Call("delete_object", key, 0, <<>>, r))
         /\ faults' = (faults \/ r # "ok")
         /\ IF r = "ok"
            THEN /\ store' = [store EXCEPT ![key] = NoObj]
                 /\ DropCache
                 /\ ReturnOk({})
                 /\ lastMut' = [kind |-> "delete", backup_id |-> op.backup_id, n |-> nOps]
            ELSE /\ DeleteRaise(r)
                 /\ UNCHANGED << store, lastMut >>
    /\ UNCHANGED << now, op, uploadVars, fetchVars, nOps >>
    /\ UNCHANGED << gatewayVars, entryVars >>


\* ------------------------------------------------- async_upload_backup

\* backup.size < CHUNK_THRESHOLD_BYTES
UseSinglePut_le(size) == size <= CHUNK_THRESHOLD_BYTES

UseSinglePut(size) == size < CHUNK_THRESHOLD_BYTES

\* The bytes 1..n of a stream.
Bytes(n) == [i \in 1..n |-> i]

\* Declared sizes of the records uploaded in SpecUpload.
DeclaredSizes == {0, CHUNK_THRESHOLD_BYTES - 1, CHUNK_THRESHOLD_BYTES, MaxTotal}

\* Entry of async_upload_backup, up to its first awaited call.
UploadEnter(backup, total, whole) ==
    /\ pc = "idle"
    /\ nOps' = nOps + 1
    /\ calls' = <<>>
    /\ op' = NewOp("upload", backup.backup_id, backup, total)
    /\ outcome' = NoOutcome
    /\ stream' = [left |-> Bytes(total), whole |-> whole]
    /\ buf' = <<>>
    /\ seq' = 1
    /\ completed_parts' = <<>>
    /\ session' = NoSession
    /\ exc' = ""
    /\ pc' = IF UseSinglePut(backup.size) THEN "single_read" ELSE "mpu_create"
    /\ UNCHANGED << store, cacheVars, now, fetchVars, lastMut, faults >>
    /\ UNCHANGED << gatewayVars, entryVars >>

\* The host uploads one of its backups; the stream has the declared size and
\* arrives in one piece.
HostUpload ==
    /\ nOps < MaxOps
    /\ \E r \in Records : UploadEnter(r, r.size, TRUE)

\* The first operation on a new agent is an upload of a record of any
\* declared size with a stream of any length, cut into pieces in any way.
UploadAny ==
    /\ nOps = 0
    /\ \E size \in DeclaredSizes, total \in 0..MaxTotal :
         UploadEnter([backup_id |-> "a", name |-> <<"f1">>, size |-> size], total, FALSE)

\* Lengths of the piece the stream may yield next.
PieceLens == IF stream.whole THEN {Len(stream.left)} \ {0} ELSE 0..Len(stream.left)

\* An exception leaves async_upload_backup.
UploadRaise_drop(k) ==
    /\ Raise("upload", k)
    /\ DropCache
    /\ UNCHANGED << store, lastMut >>

UploadRaise(k) ==
    /\ Raise("upload", k)
    /\ UNCHANGED << store, cacheVars, lastMut >>

\* _put_single: async for chunk in await open_stream(): buf.extend(chunk)
SingleRead ==
    /\ pc = "single_read"
    /\ \/ \E n \in PieceLens :
            /\ buf' = buf \o Take(stream.left, n)
            /\ stream' = [stream EXCEPT !.left = Drop(stream.left, n)]
            /\ UNCHANGED << pc, outcome, faults, store, cacheVars, lastMut >>
       \/ /\ stream.left = <<>>
          /\ pc' = "single_put"
          /\ UNCHANGED << buf, stream, outcome, faults, store, cacheVars, lastMut >>
       \/ /\ UploadRaise("StreamError")
          /\ faults' = TRUE
          /\ UNCHANGED << buf, stream >>
    /\ UNCHANGED << now, op, seq, completed_parts, session, exc, fetchVars, calls, nOps >>
    /\ UNCHANGED << gatewayVars, entryVars >>

\* _put_single: await self._gw.put_object(Key=key, Body=bytes(buf))
SinglePut ==
    /\ pc = "single_put"
    /\ LET key == Key(derive_tar_name(op.backup)) IN
       \E r \in Results :
         /\ calls' = Append(calls, Call("put_object", key, 0, buf, r))
         /\ faults' = (faults \/ r # "ok")
         /\ IF r = "ok"
            THEN /\ store' = [store EXCEPT ![key] = [t |-> "tar", data |-> buf]]
                 /\ pc' = "meta_put"
                 /\ UNCHANGED << outcome, cacheVars, lastMut >>
            ELSE UploadRaise(r)
    /\ UNCHANGED << now, op, uploadVars, fetchVars, nOps >>
    /\ UNCHANGED << gatewayVars, entryVars >>

\* except BotoCoreError: of _put_chunked: a BotoCoreError goes to the abort,
\* any other exception leaves the upload.
PartFailed(k) ==
    IF IsBotoCoreError(k)
    THEN /\ pc' = "mpu_abort"
         /\ exc' = k
         /\ UNCHANGED << outcome, store, cacheVars, lastMut >>
    ELSE /\ UploadRaise(k)
         /\ UNCHANGED exc

\* The create call is made before the try block of _put_chunked: its failure
\* leaves the upload without passing the abort handler.
CreateFailed_inTry(k) == PartFailed(k)

CreateFailed(k) ==
    /\ UploadRaise(k)
    /\ UNCHANGED exc

\* _put_chunked: mpu = await self._gw.create_multipart_upload(...)
MpuCreate ==
    /\ pc = "mpu_create"
    /\ LET key == Key(derive_tar_name(op.backup)) IN
       \E r \in Results :
         /\ calls' = Append(calls, Call("create_multipart_upload", key, 0, <<>>, r))
         /\ faults' = (faults \/ r # "ok")
         /\ IF r = "ok"
            THEN /\ session' = [state |-> "open", uid |-> nOps, parts |-> EmptyMap, done |-> 0]
                 /\ pc' = "mpu_read"
                 /\ UNCHANGED << outcome, store, cacheVars, lastMut, exc >>
            ELSE /\ CreateFailed(r)
                 /\ UNCHANGED session
    /\ UNCHANGED << now, op, stream, buf, seq, completed_parts, fetchVars, nOps >>
    /\ UNCHANGED << gatewayVars, entryVars >>

\* while len(buf) >= CHUNK_THRESHOLD_BYTES
FullPartReady(b) == Len(b) >= CHUNK_THRESHOLD_BYTES

\* if buf: the final part, else the completion.
StreamEndPc_noFinal(b) == "mpu_complete"

StreamEndPc(b) == IF b # <<>> THEN "mpu_final" ELSE "mpu_complete"

\* _put_chunked: async for chunk in await open_stream(): buf.extend(chunk),
\* then the while loop up to its upload_part; after the stream's end, the
\* final part if buf holds bytes, else the completion.
MpuRead ==
    /\ pc = "mpu_read"
    /\ \/ \E n \in PieceLens :
            /\ buf' = buf \o Take(stream.left, n)
            /\ stream' = [stream EXCEPT !.left = Drop(stream.left, n)]
            /\ pc' = IF FullPartReady(buf') THEN "mpu_part" ELSE "mpu_read"
            /\ UNCHANGED << outcome, faults, store, cacheVars, lastMut >>
       \/ /\ stream.left = <<>>
          /\ pc' = StreamEndPc(buf)
          /\ UNCHANGED << buf, stream, outcome, faults, store, cacheVars, lastMut >>
       \/ /\ UploadRaise("StreamError")
          /\ faults' = TRUE
          /\ UNCHANGED << buf, stream >>
    /\ UNCHANGED << now, op, seq, completed_parts, session, exc, fetchVars, calls, nOps >>
    /\ UNCHANGED << gatewayVars, entryVars >>

\* The part a flush uploads: the first CHUNK_THRESHOLD_BYTES of buf in the
\* while loop, all of buf after the stream's end.
Segment_all(b, final) == b

Segment(b, final) == IF final THEN b ELSE Take(b, CHUNK_THRESHOLD_BYTES)

\* The PartNumber that follows n.
NextSeq_skip(n) == n + 2

NextSeq(n) == n + 1

\* part = await self._gw.upload_part(PartNumber=seq, Body=segment, ...)
UploadPart(final) ==
    LET key == Key(derive_tar_name(op.backup))
        segment == Segment(buf, final)
        rest == IF final THEN buf ELSE Drop(buf, Len(segment))
    IN
    \E r \in Results :
      /\ calls' = Append(calls, Call("upload_part", key, seq, segment, r))
      /\ faults' = (faults \/ r # "ok")
      /\ buf' = rest
      /\ IF r = "ok"
         THEN /\ session' = [session EXCEPT !.parts = MapPut(session.parts, seq, segment)]
              /\ completed_parts' =
                    Append(completed_parts, [PartNumber |-> seq, ETag |-> ETag(segment)])
              /\ seq' = IF final THEN seq ELSE NextSeq(seq)
              /\ pc' = IF final THEN "mpu_complete"
                       ELSE IF FullPartReady(rest) THEN "mpu_part" ELSE "mpu_read"
              /\ UNCHANGED << exc, outcome, store, cacheVars, lastMut >>
         ELSE /\ PartFailed(r)
              /\ UNCHANGED << session, completed_parts, seq >>

MpuPart ==
    /\ pc = "mpu_part"
    /\ UploadPart(FALSE)
    /\ UNCHANGED << now, op, stream, fetchVars, nOps >>
    /\ UNCHANGED << gatewayVars, entryVars >>

MpuFinal ==
    /\ pc = "mpu_final"
    /\ UploadPart(TRUE)
    /\ UNCHANGED << now, op, stream, fetchVars, nOps >>
    /\ UNCHANGED << gatewayVars, entryVars >>

\* What the store accepts as MultipartUpload.Parts: uploaded parts with
\* their tags, in ascending part-number order.
Acceptable(parts, uploaded) ==
    /\ \A i \in 1..Len(parts) :
         /\ parts[i].PartNumber \in DOMAIN uploaded
         /\ parts[i].ETag = ETag(uploaded[parts[i].PartNumber])
    /\ \A i \in 1..(Len(parts) - 1) : parts[i].PartNumber < parts[i + 1].PartNumber

\* The object a completed session leaves: the listed parts, concatenated.
RECURSIVE Assemble(_, _)
Assemble(parts, uploaded) ==
    IF parts = <<>> THEN <<>>
    ELSE uploaded[Head(parts).PartNumber] \o Assemble(Tail(parts), uploaded)

\* await self._gw.complete_multipart_upload(MultipartUpload={"Parts": ...})
MpuComplete ==
    /\ pc = "mpu_complete"
    /\ LET key == Key(derive_tar_name(op.backup)) IN
       \E r \in Results :
         /\ r = "ok" => Acceptable(completed_parts, session.parts)
         /\ calls' = Append(calls, Call("complete_multipart_upload", key, session.uid,
                                        completed_parts, r))
         /\ faults' = (faults \/ r # "ok")
         /\ IF r = "ok"
            THEN /\ store' = [store EXCEPT
                                ![key] = [t |-> "tar",
                                          data |-> Assemble(completed_parts, session.parts)]]
                 /\ session' = [session EXCEPT !.state = "completed", !.done = Len(calls')]
                 /\ pc' = "meta_put"
                 /\ UNCHANGED << exc, outcome, cacheVars, lastMut >>
            ELSE /\ PartFailed(r)
                 /\ UNCHANGED session
    /\ UNCHANGED << now, op, stream, buf, seq, completed_parts, fetchVars, nOps >>
    /\ UNCHANGED << gatewayVars, entryVars >>

\* except BotoCoreError: await self._gw.abort_multipart_upload(...), whose
\* own BotoCoreError is logged; then raise.
MpuAbort ==
    /\ pc = "mpu_abort"
    /\ LET key == Key(derive_tar_name(op.backup)) IN
       \E r \in Results :
         /\ calls' = Append(calls, Call("abort_multipart_upload", key, session.uid, <<>>, r))
         /\ faults' = TRUE
         /\ session' = IF r = "ok"
                       THEN [session EXCEPT !.state = "aborted", !.done = Len(calls')]
                       ELSE session
         /\ IF r = "ok" \/ IsBotoCoreError(r)
            THEN UploadRaise(exc)
            ELSE UploadRaise(r)
    /\ UNCHANGED << now, op, stream, buf, seq, completed_parts, exc, fetchVars, nOps >>
    /\ UNCHANGED << gatewayVars, entryVars >>

\* The metadata put has failed: the exception leaves async_upload_backup,
\* the archive stays as it is.
MetaPutFailed_cleanup(k) ==
    /\ Raise("upload", k)
    /\ store' = [store EXCEPT ![Key(derive_tar_name(op.backup))] = NoObj]
    /\ UNCHANGED << cacheVars, lastMut >>

MetaPutFailed(k) == UploadRaise(k)

\* await self._gw.put_object(Key=self._key(meta_name), Body=json.dumps(...)),
\* then self._drop_cache()
MetaPut ==
    /\ pc = "meta_put"
    /\ LET key == Key(derive_meta_name(op.backup)) IN
       \E r \in Results :
         /\ calls' = Append(calls, Call("put_object", key, 0, Serialize(op.backup), r))
         /\ faults' = (faults \/ r # "ok")
         /\ IF r = "ok"
            THEN /\ store' = [store EXCEPT ![key] = Serialize(op.backup)]
                 /\ DropCache
                 /\ ReturnOk({})
                 /\ lastMut' = [kind |-> "upload", backup_id |-> op.backup_id, n |-> nOps]
            ELSE MetaPutFailed(r)
    /\ UNCHANGED << now, op, uploadVars, fetchVars, nOps >>
    /\ UNCHANGED << gatewayVars, entryVars >>

\* ------------------------------------------------- _resolve_root and _key

\* The path separator, and the characters a prefix is made of here.
Sep == "/"

PrefixChars == {Sep, "a", "b"}

STORAGE_DIR == <<"b", "a", "c", "k", "u", "p", "s">>

FALLBACK_PREFIX == <<"h", "o", "m", "e", "a", "s", "s", "i", "s", "t", "a", "n", "t">>

\* str.strip("/"): drop the separators at both ends.
LStrip_none(s) == s

RECURSIVE LStrip(_)
LStrip(s) == IF s # <<>> /\ Head(s) = Sep THEN LStrip(Tail(s)) ELSE s

RECURSIVE RStrip(_)
RStrip(s) == IF s # <<>> /\ s[Len(s)] = Sep THEN RStrip(SubSeq(s, 1, Len(s) - 1)) ELSE s

Strip(s) == RStrip(LStrip(s))

\* CloudStashAgent._resolve_root(raw_prefix)
resolve_root(raw) ==
    LET segment == Strip(raw) IN
    IF segment # <<>>
    THEN segment \o <<Sep>> \o STORAGE_DIR \o <<Sep>>
    ELSE STORAGE_DIR \o <<Sep>>

\* CloudStashAgent._key(name) with the root r
KeyOf(r, name) == r \o name

\* The raw prefixes a config entry is given: every string of at most
\* MaxPrefixLen characters.
RECURSIVE Strings(_)
Strings(n) ==
    IF n = 0 THEN {<<>>}
    ELSE LET shorter == Strings(n - 1) IN
         shorter \cup {Append(t, c) : t \in {u \in shorter : Len(u) = n - 1}, c \in PrefixChars}

\* The segments a backup's name is made of here, and the names of at most
\* MaxNameSegs segments.
NameSegs == {"backup", "2025", "01"}

RECURSIVE DottedNames(_)
DottedNames(n) ==
    IF n = 1 THEN {<<g>> : g \in NameSegs}
    ELSE LET shorter == DottedNames(n - 1) IN
         shorter \cup {Append(t, g) : t \in {u \in shorter : Len(u) = n - 1}, g \in NameSegs}

NoNames == [filename |-> <<>>, tar |-> <<>>, meta |-> <<>>]

\* _derive_object_names(backup) for a backup of any name.
DeriveNames ==
    /\ \E nm \in DottedNames(MaxNameSegs) :
         LET backup == [backup_id |-> "n", name |-> nm, size |-> 1] IN
         derived' = [filename |-> suggested_filename(backup),
                     tar |-> derive_tar_name(backup),
                     meta |-> derive_meta_name(backup)]
    /\ UNCHANGED << rootVars, registryVars, wizard, setup, concurrentVars >>
    /\ UNCHANGED << agentVars, gatewayVars >>

\* The object names the agent derives for its records.
ObjectNames == {derive_tar_name(r) : r \in Records} \cup {derive_meta_name(r) : r \in Records}

NoKey == [name |-> <<>>, key |-> <<>>]

\* The agent of an entry whose prefix option is raw.
RootOf(raw) ==
    /\ raw_prefix = raw
    /\ root = resolve_root(raw)
    /\ built = NoKey
    /\ derived = NoNames

\* The agent builds the key of one of its objects.
MakeKey ==
    /\ \E name \in ObjectNames : built' = [name |-> name, key |-> KeyOf(root, name)]
    /\ UNCHANGED << raw_prefix, root, derived, registryVars, wizard, setup, concurrentVars >>
    /\ UNCHANGED << agentVars, gatewayVars >>

\* --------------------------------------------------- ObjectStorageGateway

None == 0

\* The proxied S3 operations.
GwOps ==
    {"head_bucket", "list_objects_v2", "get_object", "put_object", "delete_object",
     "create_multipart_upload", "upload_part", "complete_multipart_upload",
     "abort_multipart_upload"}

\* What create_client(...).__aenter__() and the head_bucket probe can raise.
CreateErrs == {"ValueError"}

\* A ParamValidationError whose report says "Invalid bucket name"; the plain
\* "ParamValidationError" stands for one with any other report.
InvalidBucket == "ParamValidationError: Invalid bucket name"

ProbeErrs == {"ClientError", InvalidBucket, "ParamValidationError", "ConnectionError"}

\* except ParamValidationError
IsParamValidationError(e) == e \in {InvalidBucket, "ParamValidationError"}

\* "Invalid bucket name" in str(exc)
MentionsInvalidBucket(e) == e = InvalidBucket

NoTask == [loop |-> None, what |-> "", stage |-> "none", res |-> ""]

NoGout == [status |-> "none", exc |-> "", msg |-> ""]

GOk == [status |-> "ok", exc |-> "", msg |-> ""]

GRaised(e, m) == [status |-> "raised", exc |-> e, msg |-> m]

\* One entry of the gateway history: what happened, to what, on which
\* worker (0: on the calling thread).
Ev(ev, arg, on) == [ev |-> ev, arg |-> arg, on |-> on]

\* The coroutines of the host that call a proxied operation, one call each.
Callers == 1..MaxFlights

\* The operations they call.
FlightOps == {"get_object", "put_object"}

\* The future of run_coroutine_threadsafe before its coroutine has ended.
NoFuture == [done |-> FALSE, result |-> ""]

\* A caller that has not called: stage is where its call is (none,
\* submitted to the loop, running on the worker, finished there, delivered
\* to the caller), future is the future run_coroutine_threadsafe returned
\* to it.  History: produced is what its remote call has produced on the
\* worker, got what the caller has received, early whether the gateway was
\* running with no shutdown under way when the call was made, overlap
\* whether another call was in flight then.
NoFlight ==
    [stage |-> "none", name |-> "", loop |-> None, handle |-> None, future |-> NoFuture,
     produced |-> "", got |-> "", early |-> FALSE, overlap |-> FALSE]

InFlight(f) == f.stage \in {"submitted", "running", "finished"}

\* ObjectStorageGateway.__init__
GatewayNew ==
    /\ gw = [loop |-> None, worker |-> None, ready |-> FALSE, running |-> FALSE,
             handle |-> None]
    /\ workers = <<>>
    /\ stopReq = {}
    /\ clients = <<>>
    /\ gpc = "idle"
    /\ task = NoTask
    /\ gout = NoGout
    /\ glog = <<>>
    /\ gcall = [call |-> "none", before |-> gw, nworkers |-> 0, life |-> "none"]
    /\ nCalls = 0
    /\ flights = [c \in Callers |-> NoFlight]

\* The gateway of a loaded config entry: launch() has returned.
GatewayLaunched ==
    /\ gw = [loop |-> 1, worker |-> 1, ready |-> TRUE, running |-> TRUE, handle |-> 1]
    /\ workers = <<"serving">>
    /\ stopReq = {}
    /\ clients = <<"open">>
    /\ gpc = "idle"
    /\ task = NoTask
    /\ gout = NoGout
    /\ glog = <<>>
    /\ gcall = [call |-> "none", before |-> gw, nworkers |-> 1, life |-> "launch"]
    /\ nCalls = 0
    /\ flights = [c \in Callers |-> NoFlight]

\* The host starts a call of the gateway. The history keeps the gateway as
\* the call found it and, as life, which of launch and shutdown was the last
\* to end before it.
GwEnter(name) ==
    /\ gpc = "idle"
    /\ nCalls < MaxGwCalls
    /\ nCalls' = nCalls + 1
    /\ gcall' = [call |-> name, before |-> gw, nworkers |-> Len(workers),
                 life |-> IF gcall.call \in {"launch", "shutdown"} THEN gcall.call
                          ELSE gcall.life]

\* The call returns or raises.
GwLeave(out) ==
    /\ gpc' = "idle"
    /\ gout' = out

\* run_coroutine_threadsafe(coro, loop)
Submit(what, stage, loop) == task' = [loop |-> loop, what |-> what, stage |-> stage, res |-> ""]

\* The submitted coroutine runs on the thread that runs its loop.
Runs(what, stage) ==
    /\ task.what = what
    /\ task.stage = stage
    /\ workers[task.loop] = "serving"

Finish(res) == task' = [task EXCEPT !.stage = "finished", !.res = res]

\* -- _thread_main

\* self._loop = asyncio.new_event_loop()
WorkerAssign ==
    /\ \E w \in 1..Len(workers) :
         /\ workers[w] = "started"
         /\ workers' = [workers EXCEPT ![w] = "assigned"]
         /\ gw' = [gw EXCEPT !.loop = w]
    /\ UNCHANGED << stopReq, clients, gpc, task, gout, glog, gcall, nCalls >>
    /\ UNCHANGED << agentVars, entryVars >>

\* self._ready.set()
WorkerSignal ==
    /\ \E w \in 1..Len(workers) :
         /\ workers[w] = "assigned"
         /\ workers' = [workers EXCEPT ![w] = "signalled"]
         /\ gw' = [gw EXCEPT !.ready = TRUE]
    /\ UNCHANGED << stopReq, clients, gpc, task, gout, glog, gcall, nCalls >>
    /\ UNCHANGED << agentVars, entryVars >>

\* self._loop.run_forever() begins to run what is handed to the loop.
WorkerServe ==
    /\ \E w \in 1..Len(workers) :
         /\ workers[w] = "signalled"
         /\ workers' = [workers EXCEPT ![w] = "serving"]
    /\ UNCHANGED << gw, stopReq, clients, gpc, task, gout, glog, gcall, nCalls >>
    /\ UNCHANGED << agentVars, entryVars >>

\* loop.stop, scheduled by shutdown, runs: run_forever returns and the
\* thread ends.
WorkerStop ==
    /\ \E w \in 1..Len(workers) :
         /\ workers[w] = "serving"
         /\ w \in stopReq
         /\ workers' = [workers EXCEPT ![w] = "ended"]
         /\ stopReq' = stopReq \ {w}
    /\ UNCHANGED << gw, clients, gpc, task, gout, glog, gcall, nCalls >>
    /\ UNCHANGED << agentVars, entryVars >>

\* -- launch

\* if self._running: return
LaunchSkips_never(g) == FALSE

LaunchSkips(g) == g.running

\* launch(), up to self._ready.wait: nothing when already running, else a
\* new worker thread is started.
HostLaunch ==
    /\ GwEnter("launch")
    /\ glog' = IF LaunchSkips(gw) THEN <<>> ELSE << Ev("thread_start", Len(workers) + 1, 0) >>
    /\ IF LaunchSkips(gw)
       THEN /\ GwLeave(GOk)
            /\ UNCHANGED << gw, workers >>
       ELSE /\ Len(workers) < MaxWorkers
            /\ workers' = Append(workers, "started")
            /\ gw' = [gw EXCEPT !.worker = Len(workers) + 1]
            /\ gpc' = "launch_wait"
            /\ UNCHANGED gout
    /\ UNCHANGED << stopReq, clients, task >>
    /\ UNCHANGED << agentVars, entryVars >>

\* self._ready.wait(timeout=10) returns, the event set or the time over;
\* if self._loop is None: raise RuntimeError(...); else _open is handed to
\* the loop.
LaunchWait ==
    /\ gpc = "launch_wait"
    /\ \E timeout \in BOOLEAN :
         /\ timeout = ~gw.ready
         /\ glog' = Append(glog, Ev("wait", IF timeout THEN "timeout" ELSE "set", 0))
    /\ IF gw.loop = None
       THEN /\ GwLeave(GRaised("RuntimeError", "Worker loop did not start in time"))
            /\ UNCHANGED task
       ELSE /\ Submit("open", "create", gw.loop)
            /\ gpc' = "launch_open"
            /\ UNCHANGED gout
    /\ UNCHANGED << gw, workers, stopReq, clients, gcall, nCalls >>
    /\ UNCHANGED << agentVars, entryVars >>

\* _open on the worker: self._handle = await create_client(...).__aenter__()
OpenCreate ==
    /\ Runs("open", "create")
    /\ \E r \in {"ok"} \cup CreateErrs :
         /\ glog' = Append(glog, Ev("create_client", r, task.loop))
         /\ IF r = "ok"
            THEN /\ clients' = Append(clients, "open")
                 /\ gw' = [gw EXCEPT !.handle = Len(clients) + 1]
                 /\ task' = [task EXCEPT !.stage = "probe"]
            ELSE /\ Finish(r)
                 /\ UNCHANGED << gw, clients >>
    /\ UNCHANGED << workers, stopReq, gpc, gout, gcall, nCalls >>
    /\ UNCHANGED << agentVars, entryVars >>

\* _open on the worker: await self._handle.head_bucket(Bucket=self._bucket)
OpenProbe ==
    /\ Runs("open", "probe")
    /\ \E r \in {"ok"} \cup ProbeErrs :
         /\ glog' = Append(glog, Ev("head_bucket", r, task.loop))
         /\ Finish(r)
    /\ UNCHANGED << gw, workers, stopReq, clients, gpc, gout, gcall, nCalls >>
    /\ UNCHANGED << agentVars, entryVars >>

\* .result() of _open returns or raises; self._running = True
LaunchOpened ==
    /\ gpc = "launch_open"
    /\ task.stage = "finished"
    /\ IF task.res = "ok"
       THEN /\ gw' = [gw EXCEPT !.running = TRUE]
            /\ GwLeave(GOk)
       ELSE /\ GwLeave(GRaised(task.res, ""))
            /\ UNCHANGED gw
    /\ task' = NoTask
    /\ UNCHANGED << workers, stopReq, clients, glog, gcall, nCalls >>
    /\ UNCHANGED << agentVars, entryVars >>

\* -- shutdown

\* if not self._running or self._loop is None: return
ShutdownSkips(g) == ~g.running \/ g.loop = None

\* shutdown(), up to the .result() of _close.
HostShutdown ==
    /\ GwEnter("shutdown")
    /\ glog' = <<>>
    /\ IF ShutdownSkips(gw)
       THEN /\ GwLeave(GOk)
            /\ UNCHANGED task
       ELSE /\ Submit("close", "close", gw.loop)
            /\ gpc' = "shutdown_close"
            /\ UNCHANGED gout
    /\ UNCHANGED << gw, workers, stopReq, clients >>
    /\ UNCHANGED << agentVars, entryVars >>

\* self._handle = None, after the handle's __aexit__
HandleAfterClose_kept(h) == h

HandleAfterClose(h) == None

\* _close on the worker
CloseRun ==
    /\ Runs("close", "close")
    /\ IF gw.handle # None
       THEN /\ clients' = [clients EXCEPT ![gw.handle] = "closed"]
            /\ gw' = [gw EXCEPT !.handle = HandleAfterClose(gw.handle)]
            /\ glog' = Append(glog, Ev("client_close", gw.handle, task.loop))
       ELSE UNCHANGED << clients, gw, glog >>
    /\ Finish("ok")
    /\ UNCHANGED << workers, stopReq, gpc, gout, gcall, nCalls >>
    /\ UNCHANGED << agentVars, entryVars >>

\* .result() of _close returns; self._loop.call_soon_threadsafe(self._loop.stop)
ShutdownClosed ==
    /\ gpc = "shutdown_close"
    /\ task.stage = "finished"
    /\ task' = NoTask
    /\ stopReq' = stopReq \cup {gw.loop}
    /\ glog' = Append(glog, Ev("loop_stop", gw.loop, 0))
    /\ gpc' = "shutdown_join"
    /\ UNCHANGED << gw, workers, clients, gout, gcall, nCalls >>
    /\ UNCHANGED << agentVars, entryVars >>

\* self._worker.join(timeout=5) returns, the thread ended or the time over;
\* self._running = False
ShutdownJoin ==
    /\ gpc = "shutdown_join"
    /\ \E joined \in BOOLEAN :
         /\ joined => (gw.worker # None /\ workers[gw.worker] = "ended")
         /\ glog' = Append(glog, Ev("join", IF joined THEN "ended" ELSE "timeout", 0))
    /\ gw' = [gw EXCEPT !.running = FALSE]
    /\ GwLeave(GOk)
    /\ UNCHANGED << workers, stopReq, clients, task, gcall, nCalls >>
    /\ UNCHANGED << agentVars, entryVars >>

\* -- the proxied operations and _run

\* A proxy is called: self._handle.<operation>(**kw) is evaluated, then
\* _run checks self._loop and hands the coroutine to the loop.
HostProxy ==
    /\ \E name \in GwOps : GwEnter(name)
    /\ glog' = <<>>
    /\ IF gw.handle = None
       THEN /\ GwLeave(GRaised("AttributeError", "'NoneType' object has no attribute"))
            /\ UNCHANGED task
       ELSE IF gw.loop = None
       THEN /\ GwLeave(GRaised("RuntimeError", "Gateway not started"))
            /\ UNCHANGED task
       ELSE /\ Submit("proxy", "call", gw.loop)
            /\ gpc' = "proxy_wait"
            /\ UNCHANGED gout
    /\ UNCHANGED << gw, workers, stopReq, clients >>
    /\ UNCHANGED << agentVars, entryVars >>

\* The operation's coroutine runs on the worker: the remote call.
ProxyRun ==
    /\ Runs("proxy", "call")
    /\ \E r \in Results :
         /\ glog' = Append(glog, Ev("remote", gcall.call, task.loop))
         /\ Finish(r)
    /\ UNCHANGED << gw, workers, stopReq, clients, gpc, gout, gcall, nCalls >>
    /\ UNCHANGED << agentVars, entryVars >>

\* asyncio.wrap_future(...) hands the result or the exception to the caller.
ProxyDone ==
    /\ gpc = "proxy_wait"
    /\ task.stage = "finished"
    /\ GwLeave(IF task.res = "ok" THEN GOk ELSE GRaised(task.res, ""))
    /\ task' = NoTask
    /\ UNCHANGED << gw, workers, stopReq, clients, glog, gcall, nCalls >>
    /\ UNCHANGED << agentVars, entryVars >>

\* -- proxied operations of several callers

\* The response or the exception of the remote call made for caller c's
\* request.
Response(c, name, r) == << c, name, r >>

\* asyncio.wrap_future(run_coroutine_threadsafe(coro, loop)): the caller
\* awaits the future made for its own coroutine.
Bridged_first(c) == 1

Bridged(c) == c

\* A coroutine of the host calls a proxy: self._handle.<operation>(**kw) is
\* evaluated, then _run checks self._loop and hands the coroutine to the
\* loop; the caller is suspended on the wrapped future.
FlightSubmit ==
    /\ \E c \in Callers, name \in FlightOps :
         /\ flights[c].stage = "none"
         /\ LET began == [NoFlight EXCEPT !.name = name,
                                         !.early = (gpc = "idle" /\ gw.running),
                                         !.overlap = (\E d \in Callers : InFlight(flights[d]))]
            IN
            flights' = [flights EXCEPT ![c] =
              IF gw.handle = None
              THEN [began EXCEPT !.stage = "delivered", !.got = "AttributeError"]
              ELSE IF gw.loop = None
              THEN [began EXCEPT !.stage = "delivered", !.got = "RuntimeError"]
              ELSE [began EXCEPT !.stage = "submitted", !.loop = gw.loop,
                                 !.handle = gw.handle]]
    /\ UNCHANGED << agentVars, gatewayVars >>
    /\ UNCHANGED << rootVars, derived, registryVars, wizard, setup, parked >>

\* The worker's loop begins to run the coroutine of a call: the request is
\* sent, the coroutine is suspended until the store answers.
FlightBegin ==
    /\ \E c \in Callers :
         /\ flights[c].stage = "submitted"
         /\ workers[flights[c].loop] = "serving"
         /\ flights' = [flights EXCEPT ![c].stage = "running"]
    /\ UNCHANGED << agentVars, gatewayVars >>
    /\ UNCHANGED << rootVars, derived, registryVars, wizard, setup, parked >>

\* The coroutine of a call ends on the worker, which is still running its
\* loop: the response or the exception is set on the call's future.
FlightEnd ==
    /\ \E c \in Callers, r \in Results :
         /\ flights[c].stage = "running"
         /\ workers[flights[c].loop] = "serving"
         /\ LET resp == Response(c, flights[c].name, r) IN
            flights' = [flights EXCEPT ![c].stage = "finished",
                                       ![c].produced = resp,
                                       ![c].future = [done |-> TRUE, result |-> resp]]
    /\ UNCHANGED << agentVars, gatewayVars >>
    /\ UNCHANGED << rootVars, derived, registryVars, wizard, setup, parked >>

\* The wrapped future resumes the caller in the host's loop with the result
\* or the exception of the future.
FlightDeliver ==
    /\ \E c \in Callers :
         /\ flights[c].stage = "finished"
         /\ flights[Bridged(c)].future.done
         /\ flights' = [flights EXCEPT ![c].stage = "delivered",
                                       ![c].got = flights[Bridged(c)].future.result]
    /\ UNCHANGED << agentVars, gatewayVars >>
    /\ UNCHANGED << rootVars, derived, registryVars, wizard, setup, parked >>

\* ------------------------------------------------- the listener registry

\* The callables the host subscribes.
Listeners == {"f", "g"}

NoNotice == [gen |-> 0, called |-> <<>>]

\* No listener was ever subscribed: hass.data has no AGENT_LISTENER_KEY.
RegistryNew ==
    /\ lists = <<>>
    /\ hassdata = None
    /\ handles = <<>>
    /\ notified = NoNotice

\* list.remove(x): the list without its first item equal to x.
RECURSIVE RemoveFirst(_, _)
RemoveFirst(s, x) ==
    IF s = <<>> THEN <<>>
    ELSE IF Head(s) = x THEN Tail(s)
    ELSE <<Head(s)>> \o RemoveFirst(Tail(s), x)

\* hass.data.get(AGENT_LISTENER_KEY, [])
Registered == IF hassdata = None THEN <<>> ELSE lists[hassdata]

\* async_register_backup_agents_listener(hass, listener=l): setdefault makes
\* a new list when the key is absent; the closure returned keeps the list it
\* appended to.
Subscribe ==
    /\ Len(handles) < MaxSubs
    /\ \E l \in Listeners :
         LET at == IF hassdata = None THEN Len(lists) + 1 ELSE hassdata IN
         /\ lists' = IF hassdata = None
                      THEN Append(lists, <<l>>)
                      ELSE [lists EXCEPT ![at] = Append(@, l)]
         /\ hassdata' = at
         /\ handles' = Append(handles, [listener |-> l, list |-> at, calls |-> 0, raised |-> ""])
    /\ UNCHANGED << notified, rootVars, derived, wizard, setup, concurrentVars >>
    /\ UNCHANGED << agentVars, gatewayVars >>

\* _unsubscribe(): listeners.remove(listener) raises ValueError when the list
\* has no such item; del hass.data[AGENT_LISTENER_KEY] raises KeyError when
\* the key is absent.
Unsubscribe ==
    /\ \E h \in 1..Len(handles) :
         LET l == handles[h].listener
             at == handles[h].list
             present == \E i \in 1..Len(lists[at]) : lists[at][i] = l
             rest == RemoveFirst(lists[at], l)
         IN  /\ handles[h].calls < MaxInvokes
             /\ lists' = IF present THEN [lists EXCEPT ![at] = rest] ELSE lists
             /\ hassdata' = IF present /\ rest = <<>> THEN None ELSE hassdata
             /\ handles' = [handles EXCEPT ![h].calls = @ + 1,
                                           ![h].raised =
                                              IF ~present THEN "ValueError"
                                              ELSE IF rest = <<>> /\ hassdata = None THEN "KeyError"
                                              ELSE ""]
    /\ UNCHANGED << notified, rootVars, derived, wizard, setup, concurrentVars >>
    /\ UNCHANGED << agentVars, gatewayVars >>

\* _propagate_state_change(): for cb in hass.data.get(AGENT_LISTENER_KEY, []): cb()
StateChange ==
    /\ setup.phase = "loaded"
    /\ notified' = [gen |-> 1 - notified.gen, called |-> Registered]
    /\ UNCHANGED << lists, hassdata, handles, rootVars, derived, wizard, setup, concurrentVars >>
    /\ UNCHANGED << agentVars, gatewayVars >>

\* ---------------------------------------------------------- the config flow

NoWizard == [step |-> "", probe |-> "", errors |-> {}, result |-> "", n |-> 0]

OPT_ENDPOINT == "endpoint_url"

OPT_BUCKET == "bucket"

\* What _probe_connection does: it returns, or create_client or head_bucket
\* raises.
ProbeOutcomes == {"ok"} \cup CreateErrs \cup ProbeErrs

\* CloudStashConfigFlow._try_connect: the error dict for a probe outcome, as
\* a set of <<field, code>> pairs. The except clauses are tried in order; a
\* ParamValidationError whose report does not mention the bucket name leaves
\* the try statement and reaches the final return. The last clause is for the
\* one outcome left, the ConnectionError.
TryConnect(p) ==
    IF p = "ok" THEN {}
    ELSE IF p = "ClientError" THEN {<<"base", "invalid_credentials">>}
    ELSE IF IsParamValidationError(p)
         THEN IF MentionsInvalidBucket(p) THEN {<<OPT_BUCKET, "invalid_bucket_name">>} ELSE {}
    ELSE IF p = "ValueError" THEN {<<OPT_ENDPOINT, "invalid_endpoint_url">>}
    ELSE {<<OPT_ENDPOINT, "cannot_connect">>}

WizardSteps == {"user", "reauth_confirm", "reconfigure"}

\* A form of the flow is submitted: async_step_user, async_step_reauth_confirm
\* or async_step_reconfigure with user_input. The first and the last abort
\* when another entry has the same bucket and endpoint; else the input is
\* probed, and accepted when _try_connect returns no error.
WizardSubmit ==
    /\ wizard.n < MaxSubmits
    /\ \E step \in WizardSteps, dup \in BOOLEAN, p \in ProbeOutcomes :
         IF dup /\ step # "reauth_confirm"
         THEN wizard' = [step |-> step, probe |-> "", errors |-> {},
                         result |-> "abort", n |-> wizard.n + 1]
         ELSE LET errors == TryConnect(p) IN
              wizard' = [step |-> step, probe |-> p, errors |-> errors,
                         result |-> IF errors # {} THEN "form"
                                    ELSE IF step = "user" THEN "create_entry"
                                    ELSE "update_reload_and_abort",
                         n |-> wizard.n + 1]
    /\ UNCHANGED << registryVars, rootVars, derived, setup, concurrentVars >>
    /\ UNCHANGED << agentVars, gatewayVars >>

\* ------------------------------------- async_setup_entry, async_unload_entry

SetupNew == [phase |-> "new", cause |-> "", raised |-> "", key |-> "",
             runtime_data |-> FALSE, returned |-> FALSE]

SetupLoaded == [phase |-> "loaded", cause |-> "", raised |-> "", key |-> "",
                runtime_data |-> TRUE, returned |-> TRUE]

\* The except clauses of async_setup_entry, tried in order: what is raised to
\* the host for the exception e of launch(), and its translation key. A
\* ParamValidationError with another report, and every exception no clause
\* names, is raised as it is.
SetupMap_generic(e) == [raised |-> "ConfigEntryNotReady", key |-> "cannot_connect"]

SetupMap(e) ==
    IF e = "ClientError"
    THEN [raised |-> "ConfigEntryAuthFailed", key |-> "invalid_credentials"]
    ELSE IF IsParamValidationError(e)
    THEN IF MentionsInvalidBucket(e)
         THEN [raised |-> "ConfigEntryError", key |-> "invalid_bucket_name"]
         ELSE [raised |-> e, key |-> ""]
    ELSE IF e = "ValueError"
    THEN [raised |-> "ConfigEntryError", key |-> "invalid_endpoint_url"]
    ELSE IF e = "ConnectionError"
    THEN [raised |-> "ConfigEntryNotReady", key |-> "cannot_connect"]
    ELSE [raised |-> e, key |-> ""]

\* The flow has accepted its input: the host sets the entry up.
Accepted == wizard.result \in {"create_entry", "update_reload_and_abort"}

\* async_setup_entry: await hass.async_add_executor_job(gateway.launch), on
\* the gateway just constructed.
SetupLaunch ==
    /\ setup.phase = "new"
    /\ Accepted
    /\ gcall.call = "none"
    /\ HostLaunch

\* launch() has returned or raised: the exception is mapped and raised, or
\* entry.runtime_data = gateway and True is returned.
SetupEnd ==
    /\ setup.phase = "new"
    /\ gcall.call = "launch"
    /\ gpc = "idle"
    /\ setup' = IF gout.status = "ok"
                THEN SetupLoaded
                ELSE [phase |-> "failed", cause |-> gout.exc,
                      raised |-> SetupMap(gout.exc).raised, key |-> SetupMap(gout.exc).key,
                      runtime_data |-> FALSE, returned |-> FALSE]
    /\ UNCHANGED << registryVars, rootVars, derived, wizard, concurrentVars >>
    /\ UNCHANGED << agentVars, gatewayVars >>

\* async_unload_entry: await hass.async_add_executor_job(entry.runtime_data.shutdown)
Unload ==
    /\ setup.phase = "loaded"
    /\ gcall.call = "launch"
    /\ HostShutdown

\* shutdown() has returned: async_unload_entry returns True.
UnloadEnd ==
    /\ setup.phase = "loaded"
    /\ gcall.call = "shutdown"
    /\ gpc = "idle"
    /\ setup' = [setup EXCEPT !.phase = "unloaded"]
    /\ UNCHANGED << registryVars, rootVars, derived, wizard, concurrentVars >>
    /\ UNCHANGED << agentVars, gatewayVars >>

\* ----------------------------------------------------------- specifications

UploadSteps ==
    \/ SingleRead
    \/ SinglePut
    \/ MpuCreate
    \/ MpuRead
    \/ MpuPart
    \/ MpuFinal
    \/ MpuComplete
    \/ MpuAbort
    \/ MetaPut

\* The agent under a host that starts one operation after the other.
Next ==
    \/ HostList
    \/ HostGet
    \/ HostDelete
    \/ HostDownload
    \/ HostUpload
    \/ HostReturn
    \/ Tick
    \/ ListPage
    \/ GetObj
    \/ DownloadGet
    \/ DeleteTar
    \/ DeleteMeta
    \/ UploadSteps

\* The agent of a loaded entry: its gateway is launched, its prefix is the
\* default one.
Init ==
    /\ AgentInit
    /\ GatewayLaunched
    /\ RootOf(FALLBACK_PREFIX)
    /\ RegistryNew
    /\ wizard = NoWizard
    /\ setup = SetupLoaded

Spec == Init /\ [][Next]_vars

\* One upload on a new agent, over every stream and every cut of it.
NextUpload ==
    \/ UploadAny
    \/ UploadSteps
    \/ HostReturn

SpecUpload == Init /\ [][NextUpload]_vars

\* A new gateway under a host that calls launch, shutdown and the proxied
\* operations one after the other, with the worker threads running beside it.
InitGateway ==
    /\ AgentInit
    /\ store[<<"junk", "metadata", "json">>] = NoObj
    /\ GatewayNew
    /\ RootOf(FALLBACK_PREFIX)
    /\ RegistryNew
    /\ wizard = NoWizard
    /\ setup = SetupNew

NextGateway ==
    \/ HostLaunch
    \/ LaunchWait
    \/ OpenCreate
    \/ OpenProbe
    \/ LaunchOpened
    \/ HostShutdown
    \/ CloseRun
    \/ ShutdownClosed
    \/ ShutdownJoin
    \/ HostProxy
    \/ ProxyRun
    \/ ProxyDone
    \/ WorkerAssign
    \/ WorkerSignal
    \/ WorkerServe
    \/ WorkerStop

SpecGateway == InitGateway /\ [][NextGateway]_vars

\* Agents of entries with every raw prefix, building their object keys.
InitRoot ==
    /\ AgentInit
    /\ store[<<"junk", "metadata", "json">>] = NoObj
    /\ GatewayLaunched
    /\ \E raw \in Strings(MaxPrefixLen) : RootOf(raw)
    /\ RegistryNew
    /\ wizard = NoWizard
    /\ setup = SetupLoaded

NextRoot == MakeKey

SpecRoot == InitRoot /\ [][NextRoot]_vars

\* The object names of backups of every name.
NextNames == DeriveNames

SpecNames == Init /\ [][NextNames]_vars

\* The host of a loaded entry: it subscribes and unsubscribes listeners and
\* reports entry state changes.
NextHost ==
    \/ Subscribe
    \/ Unsubscribe
    \/ StateChange

SpecHost == Init /\ [][NextHost]_vars

\* The agent under a host that starts a second operation while the first is
\* suspended in an await.
NextConcurrent ==
    \/ HostList
    \/ HostDelete
    \/ HostUpload
    \/ HostReturn
    \/ Switch
    \/ ListPage
    \/ GetObj
    \/ DeleteTar
    \/ DeleteMeta
    \/ SingleRead
    \/ SinglePut
    \/ MpuCreate
    \/ MpuRead
    \/ MpuPart
    \/ MpuFinal
    \/ MpuComplete
    \/ MetaPut
    \/ MpuAbort

SpecConcurrent == Init /\ [][NextConcurrent]_vars

\* The gateway of a loaded entry: coroutines of the host call proxied
\* operations while the host shuts the gateway down in an executor thread.
NextFlights ==
    \/ FlightSubmit
    \/ FlightBegin
    \/ FlightEnd
    \/ FlightDeliver
    \/ HostShutdown
    \/ CloseRun
    \/ ShutdownClosed
    \/ ShutdownJoin
    \/ WorkerStop

InitFlights ==
    /\ Init
    /\ store[<<"junk", "metadata", "json">>] = NoObj

SpecFlights == InitFlights /\ [][NextFlights]_vars

\* A new entry: the config flow is run, the host sets the accepted entry up
\* on a new gateway and unloads it, with the worker thread running beside.
NextEntry ==
    \/ WizardSubmit
    \/ SetupLaunch
    \/ SetupEnd
    \/ Unload
    \/ UnloadEnd
    \/ LaunchWait
    \/ OpenCreate
    \/ OpenProbe
    \/ LaunchOpened
    \/ CloseRun
    \/ ShutdownClosed
    \/ ShutdownJoin
    \/ WorkerAssign
    \/ WorkerSignal
    \/ WorkerServe
    \/ WorkerStop

SpecEntry == InitGateway /\ [][NextEntry]_vars


\* ------------------------------------------------ reading the call history

CallsOf(name) == SelectSeq(calls, LAMBDA c : c.call = name)

FailedCalls(name) == SelectSeq(calls, LAMBDA c : c.call = name /\ c.res # "ok")

\* The key of the archive of the upload that is running.
TarKey == Key(derive_tar_name(op.backup))

ArchivePuts == SelectSeq(calls, LAMBDA c : c.call = "put_object" /\ c.key = TarKey)

PartCalls == CallsOf("upload_part")

RECURSIVE ConcatBodies(_)
ConcatBodies(cs) == IF cs = <<>> THEN <<>> ELSE Head(cs).body \o ConcatBodies(Tail(cs))

\* Position in the history of the first call with this name, 0 if none.
FirstAt(name) ==
    IF \E i \in 1..Len(calls) : calls[i].call = name
    THEN CHOOSE i \in 1..Len(calls) :
           /\ calls[i].call = name
           /\ \A j \in 1..(i - 1) : calls[j].call # name
    ELSE 0

CeilDiv(a, b) == (a + b - 1) \div b

\* ------------------------------------------------------------------ claims

\* C1: the path of an upload depends on the declared size only.  Below the
\* threshold no create-multipart is ever called, at most one put stores the
\* archive, and once the archive is stored it was stored by exactly one put
\* whose body is the whole stream; from the threshold on no put stores the
\* archive and create-multipart is called exactly once, as the first call.
C1_PathBySize ==
    op.kind = "upload" =>
      IF op.backup.size < CHUNK_THRESHOLD_BYTES
      THEN /\ CallsOf("create_multipart_upload") = <<>>
           /\ PartCalls = <<>>
           /\ Len(ArchivePuts) <= 1
           /\ \A i \in 1..Len(ArchivePuts) : ArchivePuts[i].body = Bytes(op.total)
           /\ (pc = "meta_put" \/ (pc = "done" /\ outcome.status = "ok")) =>
                /\ Len(ArchivePuts) = 1
                /\ ArchivePuts[1].res = "ok"
                /\ store[TarKey] = [t |-> "tar", data |-> Bytes(op.total)]
      ELSE /\ ArchivePuts = <<>>
           /\ Len(CallsOf("create_multipart_upload")) <= 1
           /\ (pc # "mpu_create") =>
                /\ Len(CallsOf("create_multipart_upload")) = 1
                /\ calls[1].call = "create_multipart_upload"

\* A record declared one unit below the threshold whose stream is far longer
\* than the threshold has been stored by a single put.
C1_Witness ==
    /\ pc = "done"
    /\ op.kind = "upload"
    /\ outcome.status = "ok"
    /\ op.backup.size = CHUNK_THRESHOLD_BYTES - 1
    /\ op.total > 2 * CHUNK_THRESHOLD_BYTES
    /\ Len(ArchivePuts) = 1

\* C2: in a chunked upload every part but the last uploaded has exactly
\* threshold bytes and the last has between 1 and threshold bytes, however
\* the stream is cut into pieces.
C2_PartSizes ==
    \A i \in 1..Len(PartCalls) :
      /\ i < Len(PartCalls) => Len(PartCalls[i].body) = CHUNK_THRESHOLD_BYTES
      /\ Len(PartCalls[i].body) >= 1
      /\ Len(PartCalls[i].body) <= CHUNK_THRESHOLD_BYTES

\* A finished chunked upload with two full parts and a shorter last part.
C2_Witness ==
    /\ pc = "done"
    /\ outcome.status = "ok"
    /\ Len(PartCalls) = 3
    /\ Len(PartCalls[3].body) < CHUNK_THRESHOLD_BYTES
    /\ Len(PartCalls[3].body) >= 1

\* C3: a chunked upload of T > 0 bytes that meets no failure uploads exactly
\* ceil(T / threshold) parts, numbered from 1, whose bodies concatenated in
\* part-number order are the stream, and the completed object is the stream;
\* with threshold 20 and T = 45 the parts have 20, 20 and 5 bytes and one
\* complete call, after them, lists 3 parts.
C3_PartsAreTheStream ==
    (op.kind = "upload" /\ session.state = "completed" /\ op.total > 0) =>
      /\ Len(PartCalls) = CeilDiv(op.total, CHUNK_THRESHOLD_BYTES)
      /\ \A i \in 1..Len(PartCalls) : PartCalls[i].n = i /\ PartCalls[i].res = "ok"
      /\ ConcatBodies(PartCalls) = Bytes(op.total)
      /\ store[TarKey] = [t |-> "tar", data |-> Bytes(op.total)]
      /\ (op.total = 45 /\ CHUNK_THRESHOLD_BYTES = 20) =>
            /\ [i \in 1..Len(PartCalls) |-> Len(PartCalls[i].body)] = <<20, 20, 5>>
            /\ Len(CallsOf("complete_multipart_upload")) = 1
            /\ Len(CallsOf("complete_multipart_upload")[1].body) = 3
            /\ FirstAt("complete_multipart_upload") = FirstAt("create_multipart_upload") + 4

\* The 45-unit stream has been uploaded and completed.
C3_Witness ==
    /\ op.kind = "upload"
    /\ session.state = "completed"
    /\ op.total = 45
    /\ Len(PartCalls) = 3

\* C4: part numbers are 1, 2, 3, ... in upload order; complete-multipart is
\* called at most once, after every upload-part call, all of which have
\* returned successfully, and it lists every uploaded part once, in ascending
\* order, each with the tag its upload returned.
C4_NumberingAndCompletion ==
    /\ \A i \in 1..Len(PartCalls) : PartCalls[i].n = i
    /\ Len(CallsOf("complete_multipart_upload")) <= 1
    /\ \A j \in 1..Len(calls) :
         calls[j].call = "complete_multipart_upload" =>
           /\ \A i \in (j + 1)..Len(calls) : calls[i].call # "upload_part"
           /\ FailedCalls("upload_part") = <<>>
           /\ calls[j].body =
                [i \in 1..Len(PartCalls) |->
                   [PartNumber |-> i, ETag |-> ETag(PartCalls[i].body)]]

\* A completion that lists three parts.
C4_Witness ==
    /\ session.state = "completed"
    /\ Len(completed_parts) = 3
    /\ Len(CallsOf("complete_multipart_upload")) = 1

\* C5: if an upload-part call or the complete-multipart call fails, with
\* whatever kind of failure, abort-multipart is called exactly once with the
\* session's upload identifier and the upload surfaces the original failure.
C5_AbortOnAnyFailure ==
    (pc = "done" /\ op.kind = "upload"
       /\ (FailedCalls("upload_part") # <<>> \/ FailedCalls("complete_multipart_upload") # <<>>)) =>
      /\ Len(CallsOf("abort_multipart_upload")) = 1
      /\ CallsOf("abort_multipart_upload")[1].n = session.uid
      /\ outcome.status = "raised"
      /\ outcome.cause = (FailedCalls("upload_part") \o FailedCalls("complete_multipart_upload"))[1].res

\* C6: a multipart session that was begun is, when the upload returns or
\* raises, terminated by exactly one of a successful complete-multipart call
\* and an abort-multipart call, which is the last call made for the session;
\* it is never both completed and aborted.
C6_SessionTerminated ==
    (pc = "done" /\ op.kind = "upload" /\ session.state # "none") =>
      /\ (session.state = "completed") # (CallsOf("abort_multipart_upload") # <<>>)
      /\ Len(CallsOf("abort_multipart_upload")) <= 1
      /\ \A j \in 1..Len(calls) :
           (calls[j].call = "abort_multipart_upload"
              \/ (calls[j].call = "complete_multipart_upload" /\ calls[j].res = "ok")) =>
             \A i \in (j + 1)..Len(calls) :
               calls[i].call \notin {"upload_part", "complete_multipart_upload",
                                     "abort_multipart_upload"}


\* The upload has ended after an abort-multipart call that failed.
AbortFailed ==
    /\ pc = "done"
    /\ op.kind = "upload"
    /\ Len(calls) >= 2
    /\ calls[Len(calls)].call = "abort_multipart_upload"
    /\ calls[Len(calls)].res # "ok"

\* C25: when the abort-multipart call issued after a failed part upload or
\* completion fails itself, with whatever kind of failure, the upload still
\* raises the failure of that part upload or completion, which is the call
\* made just before the abort.
C25_AbortFailureNotRaised ==
    AbortFailed =>
      /\ calls[Len(calls) - 1].call \in {"upload_part", "complete_multipart_upload"}
      /\ calls[Len(calls) - 1].res # "ok"
      /\ outcome.status = "raised"
      /\ outcome.cause = calls[Len(calls) - 1].res


\* The upload has ended and its create-multipart call had failed.
CreateFailedDone ==
    /\ pc = "done"
    /\ op.kind = "upload"
    /\ FailedCalls("create_multipart_upload") # <<>>

\* C26 as stated: after a failed create-multipart call an abort-multipart call
\* is issued, the create failure is raised, no part is uploaded and no
\* metadata document is written.
C26_AbortAfterCreateFailure ==
    CreateFailedDone =>
      /\ CallsOf("abort_multipart_upload") # <<>>
      /\ outcome.status = "raised"
      /\ outcome.cause = FailedCalls("create_multipart_upload")[1].res
      /\ PartCalls = <<>>
      /\ CallsOf("put_object") = <<>>

\* C26, amended: after a failed create-multipart call no session exists and
\* no further call is made, no abort, no part and no metadata put; the create
\* failure is raised, and the bucket and the cache stay as they were.
C26_CreateFailurePropagates ==
    CreateFailedDone =>
      /\ Len(calls) = 1
      /\ session = NoSession
      /\ outcome.status = "raised"
      /\ outcome.cause = calls[1].res
      /\ CallsOf("abort_multipart_upload") = <<>>
      /\ PartCalls = <<>>
      /\ CallsOf("put_object") = <<>>
      /\ store[TarKey] = NoObj
      /\ store[Key(derive_meta_name(op.backup))] = NoObj

\* An upload has ended on a failed create-multipart call.
C26_Witness == CreateFailedDone /\ calls[1].res = "BotoCoreError"


\* C40: complete_multipart_upload is never called with an empty list of
\* parts, also when the stream of a chunked upload yields no byte.
C40_NoEmptyComplete ==
    \A i \in 1..Len(calls) :
      calls[i].call = "complete_multipart_upload" => calls[i].body # <<>>


\* --------------------------------------------------- claims on the listing

FetchKinds == {"list", "get", "delete", "download"}

JunkKey == <<"junk", "metadata", "json">>

IdsOf(records) == {r.backup_id : r \in records}

\* Nothing has failed so far and the bucket holds only what this agent wrote.
CleanRun == ~faults /\ store[JunkKey] = NoObj

\* The operation has issued a remote listing, or is about to as its next call.
ListsRemotely ==
    \/ pc = "list_page" /\ calls = <<>>
    \/ calls # <<>> /\ calls[1].call = "list_objects_v2"

\* The records of the well-formed metadata objects of the bucket.
WellFormedRecords ==
    {Parse(store[k]).rec : k \in {x \in KeySet : IsMetaKey(x) /\ store[x] # NoObj /\ Parse(store[x]).ok}}

\* C7: round trip, in a run in which nothing fails, on a bucket only this
\* agent writes to: a list_all after a successful upload returns a record
\* with the uploaded identity and a get of it returns that record; a
\* list_all after a successful delete does not return the identity and a get
\* of it fails with BackupNotFound.
C7_RoundTrip ==
    (pc = "done" /\ CleanRun /\ lastMut.kind # "none") =>
      /\ op.kind = "list" =>
           /\ outcome.status = "ok"
           /\ lastMut.kind = "upload" => lastMut.backup_id \in IdsOf(outcome.value)
           /\ lastMut.kind = "delete" => lastMut.backup_id \notin IdsOf(outcome.value)
      /\ (op.kind = "get" /\ op.backup_id = lastMut.backup_id) =>
           IF lastMut.kind = "upload"
           THEN /\ outcome.status = "ok"
                /\ IdsOf(outcome.value) = {op.backup_id}
           ELSE /\ outcome.status = "raised"
                /\ outcome.exc = "BackupNotFound"

\* An identity was uploaded, then deleted, and its lookup has failed with
\* not-found.
C7_Witness ==
    /\ pc = "done"
    /\ CleanRun
    /\ op.kind = "get"
    /\ lastMut.kind = "delete"
    /\ op.backup_id = lastMut.backup_id
    /\ outcome.exc = "BackupNotFound"

\* C8: an operation that needs the listing lists remotely exactly when the
\* cache is not fresh as it starts (now > expiry); a list_all on a fresh
\* cache makes no remote call, returns the cached records and leaves cache
\* and expiry as they were; a list_all whose refresh succeeds leaves the
\* refreshed records in the cache with expiry = now + 300.
C8_CacheWindow ==
    op.kind \in FetchKinds =>
      /\ IF op.at > op.exp
         THEN ListsRemotely
         ELSE /\ CallsOf("list_objects_v2") = <<>>
              /\ \A i \in 1..Len(calls) : calls[i].call = "get_object" => ~IsMetaKey(calls[i].key)
      /\ (op.kind = "list" /\ pc = "done" /\ op.at <= op.exp) =>
           /\ calls = <<>>
           /\ outcome.status = "ok"
           /\ outcome.value = Range(op.seen)
           /\ listing = op.seen
           /\ listing_valid_until = op.exp
      /\ (op.kind = "list" /\ pc = "done" /\ op.at > op.exp /\ outcome.status = "ok") =>
           /\ listing = result
           /\ outcome.value = Range(listing)
           /\ listing_valid_until = now + LISTING_CACHE_SECONDS

\* A list_all that started at the very end of the freshness window of a
\* non-empty cache has returned without a remote call.
C8_Witness ==
    /\ pc = "done"
    /\ op.kind = "list"
    /\ op.at = op.exp
    /\ calls = <<>>
    /\ outcome.value # {}

\* C9: after a successful upload or delete the cache is empty and its expiry
\* is in the past, and the next operation that needs the listing finds the
\* cache empty and stale and lists remotely.
C9_MutationInvalidates ==
    /\ (pc = "done" /\ op.kind \in {"upload", "delete"} /\ outcome.status = "ok") =>
         /\ listing = EmptyMap
         /\ listing_valid_until < now
    /\ (op.kind \in FetchKinds /\ lastMut.kind # "none" /\ nOps = lastMut.n + 1) =>
         /\ op.seen = EmptyMap
         /\ op.at > op.exp
         /\ ListsRemotely

\* A delete that started on a fresh, non-empty cache has succeeded.
C9_Witness ==
    /\ pc = "done"
    /\ op.kind = "delete"
    /\ outcome.status = "ok"
    /\ op.at <= op.exp
    /\ op.seen # EmptyMap
    /\ listing = EmptyMap

\* C10: a listing all of whose remote calls succeed does not raise and
\* returns exactly the records of the well-formed metadata objects, whatever
\* bodies the other metadata objects have.
C10_CorruptSkipped ==
    (pc = "done" /\ op.kind = "list" /\ op.at > op.exp
       /\ \A i \in 1..Len(calls) : calls[i].res = "ok") =>
      /\ outcome.status = "ok"
      /\ outcome.value = WellFormedRecords

\* ------------------------------------------------- claims on the operations

\* The refresh of the running operation was cut short by an exception.
FetchFailed ==
    \/ \E i \in 1..Len(calls) :
         \/ calls[i].call = "list_objects_v2" /\ calls[i].res # "ok"
         \/ calls[i].call = "get_object" /\ IsMetaKey(calls[i].key) /\ calls[i].res = "ClientError"
    \/ outcome.exc = "KeyError"

\* The listing _fetch_listing has returned to the running operation.
UsedListing == IF op.at <= op.exp THEN op.seen ELSE result

ResolveKinds == {"get", "download", "delete"}

\* C11: _resolve returns the record of the listing with the identity asked
\* for when there is one; when there is none the caller of get, download or
\* delete gets BackupNotFound, whose message names the identity, and not
\* BackupAgentError, and nothing is fetched or deleted.
C11_ResolveOrNotFound ==
    (op.kind \in ResolveKinds /\ pc \notin {"idle", "list_page", "get_obj"} /\ ~FetchFailed) =>
      IF op.backup_id \in DOMAIN UsedListing
      THEN /\ outcome.exc # "BackupNotFound"
           /\ op.kind = "get" =>
                outcome.status = "ok" /\ outcome.value = {UsedListing[op.backup_id]}
           /\ op.kind # "get" =>
                op.backup = UsedListing[op.backup_id] /\ op.backup.backup_id = op.backup_id
      ELSE /\ pc = "done"
           /\ outcome.status = "raised"
           /\ outcome.exc = "BackupNotFound"
           /\ outcome.msg = "Backup " \o op.backup_id \o " not found"
           /\ CallsOf("delete_object") = <<>>
           /\ \A i \in 1..Len(calls) : calls[i].call = "get_object" => IsMetaKey(calls[i].key)

\* A download of an identity that a refreshed, non-empty listing does not
\* hold has failed with not-found.
C11_Witness ==
    /\ pc = "done"
    /\ op.kind = "download"
    /\ op.at > op.exp
    /\ ~FetchFailed
    /\ UsedListing # EmptyMap
    /\ op.backup_id \notin DOMAIN UsedListing
    /\ outcome.exc = "BackupNotFound"

\* C16: whatever a gateway call raises during an operation, the caller gets
\* BackupAgentError with the operation's name in its message and never the
\* remote error itself; a result is passed on unchanged.
C16_AlwaysWrapped ==
    (pc = "done" /\ outcome.status = "raised" /\ outcome.cause \in ErrKinds) =>
      /\ outcome.exc = "BackupAgentError"
      /\ outcome.msg = FnName(op.kind) \o " failed"

\* The metadata key and the archive key of the record of the running
\* operation, spelled out.
MetaKeyOf(backup) == backup.name \o <<"metadata", "json">>

TarKeyOf(backup) == backup.name \o <<"tar">>

\* Positions in the history of the calls that stored the archive.
ArchiveStoredAt ==
    {i \in 1..Len(calls) :
       /\ calls[i].res = "ok"
       /\ \/ calls[i].call = "put_object" /\ calls[i].key = TarKeyOf(op.backup)
          \/ calls[i].call = "complete_multipart_upload"}

MetaPutAt ==
    {i \in 1..Len(calls) : calls[i].call = "put_object" /\ calls[i].key = MetaKeyOf(op.backup)}

CacheAsBefore == listing = op.seen /\ listing_valid_until = op.exp

\* C17: in an upload the metadata put comes after the call that stored the
\* archive has returned, the cache changes only once the metadata put has
\* returned successfully, and an upload whose archive is not stored makes no
\* metadata put and leaves the cache as it was.
C17_MetaAfterArchive ==
    op.kind = "upload" =>
      /\ \A j \in MetaPutAt : \E i \in ArchiveStoredAt : i < j
      /\ Cardinality(MetaPutAt) <= 1
      /\ ~CacheAsBefore => (\E j \in MetaPutAt : calls[j].res = "ok")
      /\ (pc = "done" /\ outcome.status = "ok") =>
           (\E j \in MetaPutAt : calls[j].res = "ok" /\ j = Len(calls))
      /\ (pc = "done" /\ ArchiveStoredAt = {}) =>
           /\ outcome.status = "raised"
           /\ MetaPutAt = {}
           /\ CacheAsBefore

\* An upload that began on a fresh, non-empty cache has failed before its
\* archive was stored.
C17_Witness ==
    /\ pc = "done"
    /\ op.kind = "upload"
    /\ op.at <= op.exp
    /\ op.seen # EmptyMap
    /\ calls # <<>>
    /\ ArchiveStoredAt = {}
    /\ listing = op.seen

\* C18: when the metadata put fails after the archive was stored, the upload
\* raises, no delete and no abort call is made, the archive stays in the
\* store and the cache is as it was.
C18_MetaFailureLeavesArchive ==
    (pc = "done" /\ op.kind = "upload" /\ \E j \in MetaPutAt : calls[j].res # "ok") =>
      /\ outcome.status = "raised"
      /\ outcome.cause = calls[Len(calls)].res
      /\ CallsOf("delete_object") = <<>>
      /\ CallsOf("abort_multipart_upload") = <<>>
      /\ store[TarKeyOf(op.backup)] = [t |-> "tar", data |-> Bytes(op.total)]
      /\ CacheAsBefore

\* The metadata put of a chunked upload that began on a fresh, non-empty
\* cache has failed: the archive is in the store with no metadata beside it.
C18_Witness ==
    /\ pc = "done"
    /\ op.kind = "upload"
    /\ session.state = "completed"
    /\ \E j \in MetaPutAt : calls[j].res # "ok"
    /\ store[TarKeyOf(op.backup)] # NoObj
    /\ store[MetaKeyOf(op.backup)] = NoObj
    /\ op.at <= op.exp
    /\ op.seen # EmptyMap

DeleteCalls == CallsOf("delete_object")

\* C19: a delete of a listed identity calls delete_object for the archive
\* key and then for the metadata key of the resolved record, a failure
\* ending the sequence, and drops the cache only after both have returned;
\* a delete of an identity not listed raises BackupNotFound, calls no
\* delete_object and leaves the cache.
C19_DeleteOrder ==
    (op.kind = "delete" /\ pc \in {"del_tar", "del_meta", "done"}) =>
      /\ Len(DeleteCalls) <= 2
      /\ Len(DeleteCalls) >= 1 =>
           /\ DeleteCalls[1].key = TarKeyOf(UsedListing[op.backup_id])
           /\ calls[Len(calls) - Len(DeleteCalls) + 1] = DeleteCalls[1]
      /\ Len(DeleteCalls) = 2 =>
           /\ DeleteCalls[2].key = MetaKeyOf(UsedListing[op.backup_id])
           /\ DeleteCalls[1].res = "ok"
      /\ (pc = "done" /\ outcome.status = "ok") =>
           /\ Len(DeleteCalls) = 2
           /\ DeleteCalls[2].res = "ok"
           /\ listing = EmptyMap
           /\ listing_valid_until = 0
      /\ ~(pc = "done" /\ outcome.status = "ok") =>
           IF FetchFailed
           THEN CacheAsBefore
           ELSE listing_valid_until > 0 /\ listing = UsedListing
      /\ (pc = "done" /\ outcome.exc = "BackupNotFound") => DeleteCalls = <<>>

\* A delete that resolved its record from a fresh cache has made its two
\* calls and dropped the cache.
C19_Witness ==
    /\ pc = "done"
    /\ op.kind = "delete"
    /\ outcome.status = "ok"
    /\ op.at <= op.exp
    /\ Len(DeleteCalls) = 2
    /\ listing_valid_until = 0

\* The get_object calls of the running operation on metadata keys.
MetaGets == SelectSeq(calls, LAMBDA c : c.call = "get_object" /\ IsMetaKey(c.key))

\* A listing of a bucket of well-formed documents has ended; every page was
\* listed and the fetch of at least one metadata object has failed.
MetaGetFailedInList ==
    /\ pc = "done"
    /\ op.kind = "list"
    /\ store[JunkKey] = NoObj
    /\ FailedCalls("list_objects_v2") = <<>>
    /\ \E i \in 1..Len(MetaGets) : MetaGets[i].res # "ok"

\* C27: when the fetch of a metadata object fails during a listing, with
\* whatever kind of failure the store reports, the object is skipped: the
\* listing does not raise, it returns the records of the objects whose fetch
\* succeeded, and these are what the cache holds.
C27_FetchFailureSkipped ==
    MetaGetFailedInList =>
      /\ outcome.status = "ok"
      /\ outcome.value =
           {Parse(store[MetaGets[i].key]).rec : i \in {j \in 1..Len(MetaGets) : MetaGets[j].res = "ok"}}
      /\ Range(listing) = outcome.value
      /\ \A k \in KeySet : (IsMetaKey(k) /\ store[k] # NoObj) =>
            \E i \in 1..Len(MetaGets) : MetaGets[i].key = k

ListCalls == CallsOf("list_objects_v2")

\* The pages the running refresh has been given, and the keys on them.
PagesGiven == {i \in 1..Len(ListCalls) : ListCalls[i].res = "ok"}

PageKeys == UNION {Range(ListCalls[i].body[1].keys) : i \in PagesGiven}

\* The keys the bucket holds.
PresentKeys == {k \in KeySet : store[k] # NoObj}

\* C28: a refresh fetches only keys ending in the metadata suffix, and only
\* keys a page has listed; its first list call carries no continuation token
\* and each later one the token of the page before it, which was truncated;
\* no token is sent twice, no list call follows a page that is not truncated,
\* there are at most as many list calls as the bucket has pages while the
\* refresh runs, and a refresh that has ended without a failure has seen every key of the bucket and
\* returns the record of every metadata document on its pages.
C28_Pagination ==
    op.kind \in FetchKinds =>
      /\ \A i \in 1..Len(calls) :
           calls[i].call = "get_object" =>
             \/ IsMetaKey(calls[i].key) /\ calls[i].key \in PageKeys
             \/ op.kind = "download" /\ i = Len(calls) /\ pc = "done"
      /\ ListCalls # <<>> => ListCalls[1].n = 0
      /\ \A i \in 2..Len(ListCalls) :
           /\ ListCalls[i - 1].res = "ok"
           /\ ListCalls[i - 1].body[1].truncated
           /\ ListCalls[i].n = ListCalls[i - 1].body[1].next
           /\ ListCalls[i].n # 0
      /\ \A i \in 1..Len(ListCalls), j \in 1..Len(ListCalls) :
           i # j => ListCalls[i].n # ListCalls[j].n
      /\ CallsOf("delete_object") = <<>> =>
           Len(ListCalls) <= IF PresentKeys = {} THEN 1
                             ELSE CeilDiv(Cardinality(PresentKeys), PageSize)
      /\ (pc = "list_page" /\ ListCalls # <<>>) =>
           ListCalls[Len(ListCalls)].body[1].truncated
      /\ (pc = "done" /\ op.kind = "list" /\ outcome.status = "ok" /\ ListCalls # <<>>) =>
           /\ ~ListCalls[Len(ListCalls)].body[1].truncated
           /\ PageKeys = PresentKeys
           /\ \A k \in PageKeys :
                (IsMetaKey(k) /\ Parse(store[k]).ok
                   /\ \A c \in Range(calls) : c.key = k => c.res = "ok") =>
                  Parse(store[k]).rec \in outcome.value

\* A listing has ended well after three pages.
C28_Witness ==
    /\ pc = "done"
    /\ op.kind = "list"
    /\ outcome.status = "ok"
    /\ Len(ListCalls) = 3
    /\ Cardinality(outcome.value) >= 2

\* A delete has ended and one of its delete_object calls had failed.
DeleteFailedDone ==
    /\ pc = "done"
    /\ op.kind = "delete"
    /\ FailedCalls("delete_object") # <<>>

\* C29: in a delete the first failing delete_object call is the last call
\* made and its failure is what the caller gets; when it is the archive
\* delete, no metadata delete is made and both objects stay; when it is the
\* metadata delete, the archive is gone and the metadata document stays; in
\* both cases the cache stays as _resolve left it.
C29_FirstDeleteFailurePropagates ==
    DeleteFailedDone =>
      LET rec == UsedListing[op.backup_id]
          bad == FailedCalls("delete_object")[1]
      IN  /\ Len(FailedCalls("delete_object")) = 1
          /\ calls[Len(calls)] = bad
          /\ outcome.status = "raised"
          /\ outcome.cause = bad.res
          /\ listing = UsedListing
          /\ listing_valid_until > 0
          /\ listing_valid_until = IF op.at <= op.exp THEN op.exp ELSE Expiry(now)
          /\ store[MetaKeyOf(rec)] # NoObj
          /\ IF bad.key = TarKeyOf(rec)
             THEN /\ Len(DeleteCalls) = 1
                  /\ lastMut.n # nOps
             ELSE /\ Len(DeleteCalls) = 2
                  /\ bad.key = MetaKeyOf(rec)
                  /\ DeleteCalls[1].key = TarKeyOf(rec)
                  /\ DeleteCalls[1].res = "ok"
                  /\ store[TarKeyOf(rec)] = NoObj

\* A delete that refreshed the listing has lost its archive and failed on
\* the metadata delete.
C29_Witness ==
    /\ DeleteFailedDone
    /\ Len(DeleteCalls) = 2
    /\ ListCalls # <<>>

\* C37: while a refresh runs, and after it has failed on a list call or on
\* an exception of a fetch that is not skipped, the cache holds the records
\* and the expiry it had when the operation began: never the records of some
\* pages only, never a new expiry.
C37_FailedRefreshLeavesCache ==
    op.kind \in FetchKinds =>
      /\ pc \in {"list_page", "get_obj"} => CacheAsBefore
      /\ (pc = "done" /\ FetchFailed) =>
           /\ CacheAsBefore
           /\ outcome.status = "raised"
           /\ DeleteCalls = <<>>

\* A refresh of an expired cache that held a record has failed on its
\* second page.
C37_Witness ==
    /\ pc = "done"
    /\ op.kind = "list"
    /\ op.seen # EmptyMap
    /\ Len(ListCalls) = 2
    /\ ListCalls[2].res # "ok"
    /\ listing = op.seen

\* The records a remote listing surfaces: those of the well-formed metadata
\* documents of the bucket.
Surfaced == WellFormedRecords

\* C36: between operations, whatever uploads and deletes have run or failed
\* part-way, the archive object of every record a remote listing surfaces is
\* in the bucket.
C36_ListedHasArchive ==
    pc \in {"idle", "done"} =>
      \A r \in Surfaced : store[Key(derive_tar_name(r))] # NoObj


\* ---------------------------------------- claims on concurrent operations

\* The program counters at which a gateway call of the operation has been
\* issued and has not returned.
RemotePcs ==
    {"list_page", "get_obj", "dl_get", "del_tar", "del_meta", "single_put", "mpu_create",
     "mpu_part", "mpu_complete", "mpu_abort", "meta_put"}

\* C34: of one agent at most one gateway call is outstanding at any time,
\* also when the host has started a second operation while the first is
\* suspended.
C34_OneOutstandingCall == ~(pc \in RemotePcs /\ parked.pc \in RemotePcs)

\* C35: in a run in which no call has failed, a fresh listing cache holds
\* the record of the last upload that succeeded and does not hold the record
\* of the last delete that succeeded.
C35_FreshCacheCurrent ==
    (~faults /\ IsFresh(now, listing_valid_until)) =>
      /\ lastMut.kind = "upload" => lastMut.backup_id \in DOMAIN listing
      /\ lastMut.kind = "delete" => lastMut.backup_id \notin DOMAIN listing

\* ---------------------------------------------------- claims on the root

AllSep(s) == \A i \in 1..Len(s) : s[i] = Sep

\* C20: the root of every raw prefix does not start with a separator and
\* ends with exactly one; it is "backups/" when the prefix is empty or all
\* separators, and else the prefix without its leading and trailing
\* separators followed by "/backups/"; a key is the root followed by the
\* object's name.
C20_RootShape ==
    /\ root # <<>>
    /\ Head(root) # Sep
    /\ root[Len(root)] = Sep
    /\ root[Len(root) - 1] # Sep
    /\ IF AllSep(raw_prefix)
       THEN root = STORAGE_DIR \o <<Sep>>
       ELSE \E a \in 1..Len(raw_prefix), b \in 1..Len(raw_prefix) :
              /\ a <= b
              /\ AllSep(SubSeq(raw_prefix, 1, a - 1))
              /\ AllSep(SubSeq(raw_prefix, b + 1, Len(raw_prefix)))
              /\ raw_prefix[a] # Sep
              /\ raw_prefix[b] # Sep
              /\ root = SubSeq(raw_prefix, a, b) \o <<Sep>> \o STORAGE_DIR \o <<Sep>>
    /\ built # NoKey =>
         /\ Len(built.key) = Len(root) + Len(built.name)
         /\ SubSeq(built.key, 1, Len(root)) = root
         /\ SubSeq(built.key, Len(root) + 1, Len(built.key)) = built.name

\* A key has been built under the root of a prefix that has separators at
\* both ends and one inside.
C20_Witness ==
    /\ Len(raw_prefix) = MaxPrefixLen
    /\ raw_prefix[1] = Sep
    /\ raw_prefix[Len(raw_prefix)] = Sep
    /\ Len(Strip(raw_prefix)) >= 1
    /\ built # NoKey

\* C21: _derive_object_names drops only what follows the last dot of the
\* record's suggested filename and appends "tar" and "metadata.json" to that
\* one stem, so the two names differ only in their suffix; the filename
\* backup.2025.01.tar gives backup.2025.01.tar and backup.2025.01.metadata.json.
C21_SplitOnLastDot ==
    derived # NoNames =>
      LET f == derived.filename
          stem == [i \in 1..(Len(f) - 1) |-> f[i]]
      IN  /\ Len(f) >= 2
          /\ derived.tar = stem \o <<"tar">>
          /\ derived.meta = stem \o <<"metadata", "json">>
          /\ SubSeq(derived.tar, 1, Len(stem)) = SubSeq(derived.meta, 1, Len(stem))
          /\ (f = <<"backup", "2025", "01", "tar">> =>
                /\ derived.tar = <<"backup", "2025", "01", "tar">>
                /\ derived.meta = <<"backup", "2025", "01", "metadata", "json">>)

\* The names of the backup whose filename is backup.2025.01.tar were derived.
C21_Witness == derived.filename = <<"backup", "2025", "01", "tar">>

\* ----------------------------------------------------- claims on the host

\* C23: _try_connect returns no error exactly when the probe succeeded; a
\* failed probe gives invalid_credentials for a ClientError,
\* invalid_bucket_name for a ParamValidationError, invalid_endpoint_url for a
\* ValueError and cannot_connect for a ConnectionError, and no step of the
\* flow accepts an input whose probe failed.
C23_EmptyIffProbeOk ==
    wizard.probe # "" =>
      /\ (wizard.errors = {}) <=> (wizard.probe = "ok")
      /\ wizard.probe = "ClientError" => wizard.errors = {<<"base", "invalid_credentials">>}
      /\ IsParamValidationError(wizard.probe) =>
           wizard.errors = {<<OPT_BUCKET, "invalid_bucket_name">>}
      /\ wizard.probe = "ValueError" => wizard.errors = {<<OPT_ENDPOINT, "invalid_endpoint_url">>}
      /\ wizard.probe = "ConnectionError" => wizard.errors = {<<OPT_ENDPOINT, "cannot_connect">>}
      /\ wizard.result \in {"create_entry", "update_reload_and_abort"} => wizard.probe = "ok"

\* The registrations of listener l whose handle has not been invoked, and
\* the times l is in a list.
Live(l) == Cardinality({h \in 1..Len(handles) : handles[h].listener = l /\ handles[h].calls = 0})

Count(s, l) == Cardinality({i \in 1..Len(s) : s[i] = l})

\* The registry holds each listener as often as it is subscribed and not
\* yet unsubscribed, and the key is absent exactly when it holds none.
RegistryExact ==
    /\ \A l \in Listeners : Count(Registered, l) = Live(l)
    /\ (hassdata = None) <=> (\A l \in Listeners : Live(l) = 0)
    /\ hassdata # None => lists[hassdata] # <<>>

\* The invocation of a handle takes one registration of its own listener
\* out of the registry when it is the handle's first, none when it is not,
\* and no registration of another listener.
OwnRegistrationOnly ==
    \A h \in 1..Len(handles) :
      (Len(handles') = Len(handles) /\ handles'[h].calls # handles[h].calls) =>
        \A l \in Listeners :
          Count(Registered', l) =
            Count(Registered, l)
              - (IF l = handles[h].listener /\ handles[h].calls = 0 THEN 1 ELSE 0)

\* An entry state change calls each listener as often as it is registered.
NotifiesRegistered ==
    notified' # notified =>
      \A l \in Listeners : Count(notified'.called, l) = Live(l)

\* C24: after any subscriptions and invocations of unsubscribe handles the
\* registry holds exactly the listeners subscribed and not yet unsubscribed,
\* the key is absent whenever none is registered, the invocation of a handle
\* removes only that handle's own registration, and an entry state change
\* calls every registered listener once and no unsubscribed one.
C24_RegistryExact ==
    /\ []RegistryExact
    /\ [][OwnRegistrationOnly]_vars
    /\ [][NotifiesRegistered]_vars

\* C22: async_setup_entry raises ConfigEntryAuthFailed for a ClientError of
\* launch, the invalid_bucket_name ConfigEntryError for a
\* ParamValidationError that mentions an invalid bucket name, the
\* invalid_endpoint_url ConfigEntryError for a ValueError and
\* ConfigEntryNotReady for a ConnectionError, four different conditions; it
\* stores the gateway as runtime data and returns True exactly when launch
\* has returned, and then the gateway is running.
C22_SetupMapping ==
    /\ setup.phase = "failed" =>
         LET told == <<setup.raised, setup.key>> IN
         /\ gout.status = "raised"
         /\ setup.cause = gout.exc
         /\ ~setup.runtime_data
         /\ ~setup.returned
         /\ ~gw.running
         /\ setup.cause = "ClientError" => told = <<"ConfigEntryAuthFailed", "invalid_credentials">>
         /\ setup.cause = InvalidBucket => told = <<"ConfigEntryError", "invalid_bucket_name">>
         /\ setup.cause = "ValueError" => told = <<"ConfigEntryError", "invalid_endpoint_url">>
         /\ setup.cause = "ConnectionError" => told = <<"ConfigEntryNotReady", "cannot_connect">>
    /\ setup.phase = "loaded" =>
         /\ setup.runtime_data
         /\ setup.returned
         /\ gcall.call = "launch" => (gout = GOk /\ gw.running /\ gw.handle # None)
    /\ setup.phase = "new" => (~setup.runtime_data /\ ~setup.returned)

\* A setup has failed on a bucket name the store's client rejects.
C22_Witness ==
    /\ setup.phase = "failed"
    /\ setup.cause = InvalidBucket

\* -------------------------------------------------- claims on the gateway

\* C12: a proxied operation called on a gateway on which launch was never
\* called raises RuntimeError("Gateway not started") and makes no remote call.
C12_NotStarted ==
    (gcall.call \in GwOps /\ gcall.nworkers = 0 /\ gpc = "idle") =>
      /\ gout = GRaised("RuntimeError", "Gateway not started")
      /\ glog = <<>>
      /\ task = NoTask

\* C13: launch on a gateway that is running returns at once: no thread is
\* started, no client is created, nothing is handed to a loop, no probe is
\* made, and the gateway's fields are as they were.
C13_LaunchIdempotent ==
    [][ (gcall'.call = "launch" /\ nCalls' = nCalls + 1 /\ gw.running) =>
          /\ gw' = gw
          /\ workers' = workers
          /\ clients' = clients
          /\ stopReq' = stopReq
          /\ task' = task
          /\ glog' = <<>>
          /\ gpc' = "idle"
          /\ gout' = GOk ]_vars

\* launch has been called on a running gateway and has returned.
C13_Witness ==
    /\ gcall.call = "launch"
    /\ gcall.before.running
    /\ gpc = "idle"
    /\ gout = GOk

\* The worker thread the current launch has started.
LaunchedWorker == gcall.nworkers + 1

HasEv(ev, arg) == \E i \in 1..Len(glog) : glog[i].ev = ev /\ glog[i].arg = arg

\* C14: launch on a gateway that is not running returns normally only
\* after its worker has signalled readiness and the probe has succeeded on a
\* worker, and then the gateway is running with an open client; when the
\* wait for readiness runs out launch raises the startup-timeout error, when
\* the probe fails launch raises the probe's failure, and in both cases the
\* gateway is not running.
C14_LaunchBlocksUntilReady ==
    (gcall.call = "launch" /\ ~gcall.before.running /\ gpc = "idle") =>
      /\ HasEv("wait", "timeout") =>
           gout = GRaised("RuntimeError", "Worker loop did not start in time")
      /\ gout.status = "ok" =>
           /\ workers[LaunchedWorker] \in {"signalled", "serving", "ended"}
           /\ HasEv("head_bucket", "ok")
           /\ gw.running
           /\ gw.handle # None
           /\ clients[gw.handle] = "open"
      /\ gout.status = "raised" =>
           /\ ~gw.running
           /\ \/ gout.exc = "RuntimeError"
              \/ HasEv("create_client", gout.exc)
              \/ HasEv("head_bucket", gout.exc)
      /\ (\E e \in ProbeErrs : HasEv("head_bucket", e)) =>
           gout.status = "raised" /\ HasEv("head_bucket", gout.exc)

\* C15: shutdown on a running gateway closes the client on a worker, then
\* schedules the stop of the loop, then joins the worker, and leaves the
\* gateway not running with no client handle; shutdown on a gateway that is
\* not running changes nothing and hands nothing to a loop.
C15_ShutdownOrder ==
    /\ [](  (gcall.call = "shutdown" /\ gcall.before.running /\ gpc = "idle") =>
              /\ Len(glog) = 3
              /\ glog[1].ev = "client_close"
              /\ glog[1].arg = gcall.before.handle
              /\ glog[1].on # 0
              /\ glog[2].ev = "loop_stop"
              /\ glog[3].ev = "join"
              /\ clients[gcall.before.handle] = "closed"
              /\ ~gw.running
              /\ gw.handle = None
              /\ gout = GOk )
    /\ [][ (gcall'.call = "shutdown" /\ nCalls' = nCalls + 1 /\ ~gw.running) =>
             /\ gw' = gw
             /\ workers' = workers
             /\ clients' = clients
             /\ stopReq' = stopReq
             /\ task' = task
             /\ glog' = <<>>
             /\ gpc' = "idle"
             /\ gout' = GOk ]_vars

\* A shutdown of a running gateway has returned with its worker ended.
C15_Witness ==
    /\ gcall.call = "shutdown"
    /\ gcall.before.running
    /\ gpc = "idle"
    /\ HasEv("join", "ended")

\* The call that is running, or was the last to run, is a proxied operation
\* issued after a shutdown() had returned and before any later launch().
IssuedAfterShutdown ==
    /\ gcall.call \in GwOps
    /\ gcall.life = "shutdown"

\* C30: an operation issued after shutdown() has returned is rejected: it
\* is not handed to a worker loop, and its caller gets an exception at once.
C30_RejectedAfterShutdown ==
    IssuedAfterShutdown =>
      /\ gpc = "idle"
      /\ task = NoTask
      /\ gout.status = "raised"
      /\ ~HasEv("remote", gcall.call)

\* launch() has raised: the wait for readiness ran out or _open failed.
LaunchFailed ==
    /\ gcall.call = "launch"
    /\ gpc = "idle"
    /\ gout.status = "raised"

\* The fields of a gateway as __init__ leaves them.
FreshFields ==
    [loop |-> None, worker |-> None, ready |-> FALSE, running |-> FALSE, handle |-> None]

\* C38: when launch() has failed no worker thread is left running and no
\* client is left open, the gateway's fields are those of a newly
\* constructed gateway, and an operation called next raises the not-started
\* error.
C38_FailedLaunchLeavesNothing ==
    /\ [](LaunchFailed =>
            /\ \A w \in 1..Len(workers) : workers[w] = "ended"
            /\ \A c \in 1..Len(clients) : clients[c] # "open"
            /\ gw = FreshFields)
    /\ [][ (LaunchFailed /\ gcall'.call \in GwOps /\ nCalls' = nCalls + 1) =>
             gout' = GRaised("RuntimeError", "Gateway not started") ]_vars

\* The worker threads that have been started and have not ended.
LiveWorkers == {w \in 1..Len(workers) : workers[w] # "ended"}

\* C33: at most one worker thread of the gateway is alive at any time, and
\* whatever a call of the gateway runs on a worker (client creation, probe,
\* remote call, close) runs on the worker the gateway holds.
C33_OneWorker ==
    /\ Cardinality(LiveWorkers) <= 1
    /\ \A i \in 1..Len(glog) :
         (glog[i].on # 0 /\ glog[i].ev # "thread_start") => glog[i].on = gw.worker

\* The call that is running, or was the last to run, is a launch() called
\* after a shutdown() that had torn the gateway down: the loop the gateway
\* held when launch was called is one whose stop shutdown has scheduled.
LaunchAfterTeardown ==
    /\ gcall.call = "launch"
    /\ gcall.life = "shutdown"
    /\ ~gcall.before.running
    /\ gcall.before.loop # None
    /\ (workers[gcall.before.loop] = "ended" \/ gcall.before.loop \in stopReq)

\* C39: a launch() called after a completed shutdown() hands _open to the
\* loop of the worker this launch has started, never to the loop the
\* shutdown has stopped, and when it has returned the gateway is running
\* with an open client on a worker that serves.
C39_RelaunchOnNewLoop ==
    LaunchAfterTeardown =>
      /\ task.what = "open" =>
           /\ task.loop = LaunchedWorker
           /\ task.loop \notin stopReq
           /\ workers[task.loop] # "ended"
      /\ (gpc = "idle" /\ gout = GOk) =>
           /\ gw.running
           /\ gw.handle # None
           /\ clients[gw.handle] = "open"
           /\ workers[gw.loop] = "serving"

\* ------------------------------------------- claims on calls in flight

\* C31: while a call made before shutdown() was invoked is in progress on
\* the worker, its client is open, the stop of its loop has not been
\* scheduled and its worker has not ended.
C31_NoTeardownUnderCalls ==
    \A c \in Callers :
      (flights[c].early /\ flights[c].stage = "running") =>
        /\ clients[flights[c].handle] = "open"
        /\ flights[c].loop \notin stopReq
        /\ workers[flights[c].loop] # "ended"

=============================================================================
